---- MODULE Spec2Model ----
(***************************************************************************)
(* The Implementation Agent of src/src/agents/assistant_agent.py: Task     *)
(* objects, the task map guarded by task_lock, the ready queue             *)
(* (queue.PriorityQueue, a binary heap ordered by Task.__lt__), the worker *)
(* threads, add_task, check_dependencies, start and stop.                  *)
(***************************************************************************)
EXTENDS Integers, Sequences, FiniteSets, TLC

\* ----------------------------------------------------------------- bounds
MaxWorkers == 2
MaxStarts == 2
MaxTasks == 2
MaxIds == 2
MaxDeps == 1
MaxQueue == 3
MaxFiles == 2
MaxTests == 1
MaxPaths == 2
QueueMaxTasks == 3
SeqMaxQueue == 6
MaxUnfinished == 6
SeqWorkers == 1
MaxCallers == 2
MaxMergeCalls == 3
MaxKeys == 4
MaxBridgeCalls == 2
MaxMentions == 2
MaxBlockedTasks == 2
MaxGraphSteps == 7

\* ------------------------------------------------------ program constants
HIGH == 3
MEDIUM == 2
LOW == 1
RecursionLimit == 10

PENDING == "pending"
IN_PROGRESS == "in_progress"
COMPLETED == "completed"
FAILED == "failed"


\* The sentinel stop() puts on the queue (Python's None); Task objects are
\* numbered from 1 in creation order, so 0 never names a Task.
NoneItem == 0

Ids == 1..MaxIds
Keys == 1..MaxKeys
Threads == 1..(MaxStarts * MaxWorkers)
Callers == 1..MaxCallers

\* Names of the threads that are not workers.
Sweeper == "sweeper"
NoThread == "nobody"

VARIABLES
    objs,          \* the Task objects ever constructed, in creation order
    tasks,         \* self.tasks: task_id -> Task object (0: key absent)
    order,         \* insertion order of the keys of self.tasks
    task_queue,    \* the heap list of self.task_queue
    unfinished,    \* self.task_queue.unfinished_tasks
    task_lock,     \* the thread holding self.task_lock
    running,       \* self.running
    workers,       \* self.workers
    spawned,       \* number of worker threads ever created
    wpc,           \* each worker thread's position in _worker_thread
    wtask,         \* the Task a worker has dequeued (0: none)
    wout,          \* what _process_task returned or raised in a worker
    wenv,          \* what the LLM and the repository answered in that run
    branch_files,  \* per Task: the paths created/updated on its branch
    repo,          \* self.repo is configured
    apc, atask,    \* the add_task call in progress: position, its Task
    spc, sidx,     \* the check_dependencies call in progress: position, index
    mpc, mcount,   \* the stop() call in progress: position, sentinels put
    stpc,          \* each concurrent start() call's position
    gh,            \* GitHubIntegration: the merge_pull_request calls made
    ph,            \* ImplementationPhases: position, plan, files written, report
    sl,            \* SlackIntegration: its projects attribute, the calls made
    rag,           \* main.py: the mentions its handler has answered
    wf,            \* LangGraphWorkflow: the AgentState of the run in progress
    li,            \* LangGraphSlackInterface: its attributes, the mentions handled
    sb,            \* agents/slack_integration.py: handlers, the mentions handled
    ml             \* integrations/slack.py: the mentions handled

vars == <<objs, tasks, order, task_queue, unfinished, task_lock, running,
          workers, spawned, wpc, wtask, wout, wenv, branch_files, repo,
          apc, atask, spc, sidx, mpc, mcount, stpc, gh, ph, sl,
          rag, wf, li, sb, ml>>

\* ------------------------------------------------------------ Task objects
NoResult == [task_type |-> "None", implemented_files |-> <<>>, pull_request |-> FALSE]
NoError == "None"
NoBranch == 0

\* Task.__init__
NewTask(task_id, priority, dependencies) ==
    [task_id |-> task_id, priority |-> priority, dependencies |-> dependencies,
     status |-> PENDING, result |-> NoResult, error |-> NoError,
     branch_name |-> NoBranch]

\* Task.__lt__ for two Task objects: higher priority value sorts first.
TaskLt(a, b) == objs[a].priority > objs[b].priority

\* a < b as the heap evaluates it on two queue items.  None supports no
\* ordering, and Task.__lt__ returns NotImplemented for a non-Task, so a
\* comparison involving the sentinel raises TypeError.
ItemLt(a, b) ==
    IF a = NoneItem \/ b = NoneItem THEN "TypeError"
    ELSE IF TaskLt(a, b) THEN "true" ELSE "false"

\* ------------------------------------------- the heap of queue.PriorityQueue
Swap(h, i, j) == [h EXCEPT ![i] = h[j], ![j] = h[i]]

\* heapq siftdown(heap, startpos, pos), positions counted from 0.
RECURSIVE SiftDown(_, _, _)
SiftDown(h, startpos, pos) ==
    IF pos <= startpos THEN [heap |-> h, ok |-> TRUE]
    ELSE LET parentpos == (pos - 1) \div 2
             c == ItemLt(h[pos + 1], h[parentpos + 1])
         IN  IF c = "TypeError" THEN [heap |-> h, ok |-> FALSE]
             ELSE IF c = "false" THEN [heap |-> h, ok |-> TRUE]
             ELSE SiftDown(Swap(h, pos + 1, parentpos + 1), startpos, parentpos)

\* The loop of heapq siftup: bubble the smaller child up until a leaf.
RECURSIVE SiftUpLoop(_, _)
SiftUpLoop(h, pos) ==
    LET endpos == Len(h)
        limit == endpos \div 2
    IN  IF pos >= limit THEN [heap |-> h, ok |-> TRUE, pos |-> pos]
        ELSE LET left == 2 * pos + 1
                 c == IF left + 1 < endpos
                      THEN ItemLt(h[left + 1], h[left + 2])
                      ELSE "true"
             IN  IF c = "TypeError" THEN [heap |-> h, ok |-> FALSE, pos |-> pos]
                 ELSE LET childpos == IF c = "true" THEN left ELSE left + 1
                      IN  SiftUpLoop(Swap(h, pos + 1, childpos + 1), childpos)

SiftUp(h, pos) ==
    LET r == SiftUpLoop(h, pos)
    IN  IF r.ok THEN SiftDown(r.heap, pos, r.pos)
        ELSE [heap |-> r.heap, ok |-> FALSE]

\* heapq.heappush: the item is appended, then sifted; ok = FALSE when a
\* comparison raised (the item stays where the sift stopped).
HeapPush(h, item) == SiftDown(Append(h, item), 0, Len(h))

\* heapq.heappop of a non-empty heap: item is the old root; ok = FALSE when
\* a comparison raised, and then the old root is dropped and nothing returned.
HeapPop(h) ==
    LET n == Len(h)
        lastelt == h[n]
        rest == SubSeq(h, 1, n - 1)
    IN  IF n = 1 THEN [heap |-> <<>>, ok |-> TRUE, item |-> lastelt]
        ELSE LET r == SiftUp([rest EXCEPT ![1] = lastelt], 0)
             IN  [heap |-> r.heap, ok |-> r.ok, item |-> h[1]]

\* ------------------------------------------------------------ dependencies
\* The test of add_task and check_dependencies on one dependency id
\* (DepSatisfiedAlways: a faulty variant that skips the test, against which
\* the dependency gating property is tried).
DepSatisfiedAlways(dep_id) == TRUE
DepSatisfied(dep_id) ==
    tasks[dep_id] # 0 /\ objs[tasks[dep_id]].status = COMPLETED

CanQueue(dependencies) ==
    \A i \in 1..Len(dependencies) : DepSatisfied(dependencies[i])

SeqsUpTo(S, n) == UNION {[1..k -> S] : k \in 0..n}
DepLists == SeqsUpTo(Ids, MaxDeps)

\* add_task's conversion of the priority text.
PriorityTexts == {"high", "HIGH", "medium", "low", "Low", "urgent"}
Lower(s) ==
    CASE s = "HIGH" -> "high"
      [] s = "Low" -> "low"
      [] s = "ANALYSIS" -> "analysis"
      [] s = "Implementation" -> "implementation"
      [] s = "Document_Processing" -> "document_processing"
      [] OTHER -> s
PriorityEnum(priority) ==
    IF Lower(priority) = "high" THEN HIGH
    ELSE IF Lower(priority) = "low" THEN LOW
    ELSE MEDIUM

NoOutcome == [kind |-> "none", result |-> NoResult, error |-> NoError]

\* ------------------------------------------------------- the task pipeline
\* One entry of the "files" list of an implementation plan: path 0 and
\* action "" stand for a missing or empty value; api tells whether the
\* repository calls made for the entry succeed.
Actions == {"create", "modify", "delete"}
FileEntries ==
    [path : 1..MaxPaths, action : Actions, content : {TRUE}, api : BOOLEAN]
    \cup {[path |-> 0, action |-> "create", content |-> TRUE, api |-> TRUE],
          [path |-> 1, action |-> "", content |-> TRUE, api |-> TRUE],
          [path |-> 1, action |-> "create", content |-> FALSE, api |-> TRUE]}

\* One entry of the "tests" list: update tells whether get_contents and
\* update_file both succeed, create whether create_file does.
TestEntries ==
    [path : 1..MaxPaths, content : {TRUE}, update : BOOLEAN, create : BOOLEAN]
    \cup {[path |-> 0, content |-> TRUE, update |-> TRUE, create |-> TRUE],
          [path |-> 1, content |-> FALSE, update |-> TRUE, create |-> TRUE]}

Plans == [files : SeqsUpTo(FileEntries, MaxFiles), tests : SeqsUpTo(TestEntries, MaxTests)]
EmptyPlan == [files |-> <<>>, tests |-> <<>>]

\* The body of the files loop for one entry: what it appends to
\* implemented_files (FileStepRecordsFailed: a faulty variant that records
\* the path although the repository call raised).
FileStepRecordsFailed(e) ==
    IF e.path = 0 \/ e.action = "" \/ ~e.content THEN <<>> ELSE <<e.path>>
FileStep(e) ==
    IF e.path = 0 \/ e.action = "" \/ ~e.content THEN <<>>
    ELSE IF e.action = "create" THEN (IF e.api THEN <<e.path>> ELSE <<>>)
    ELSE IF e.action = "modify" THEN (IF e.api THEN <<e.path>> ELSE <<>>)
    ELSE <<e.path>>

\* What the same entry writes to the branch.
FileApplied(e) ==
    IF e.path = 0 \/ e.action = "" \/ ~e.content THEN <<>>
    ELSE IF e.action \in {"create", "modify"} /\ e.api THEN <<e.path>>
    ELSE <<>>

\* The body of the tests loop for one entry.
TestStep(e) ==
    IF e.path = 0 \/ ~e.content THEN <<>>
    ELSE IF e.update THEN <<e.path>>
    ELSE IF e.create THEN <<e.path>>
    ELSE <<>>

TestApplied(e) == TestStep(e)

\* The files loop of _implement_feature from entry i on.
RECURSIVE FilesLoop(_, _)
FilesLoop(files, i) ==
    IF i > Len(files) THEN <<>>
    ELSE FileStep(files[i]) \o FilesLoop(files, i + 1)

\* The tests loop of _implement_feature from entry i on.
RECURSIVE TestsLoop(_, _)
TestsLoop(tests, i) ==
    IF i > Len(tests) THEN <<>>
    ELSE TestStep(tests[i]) \o TestsLoop(tests, i + 1)

\* _implement_feature after the plan has been obtained: implemented_files.
ImplementFeature(plan) == FilesLoop(plan.files, 1) \o TestsLoop(plan.tests, 1)

\* What the two loops write to the branch, in the order of the calls.
RECURSIVE AppliedLoop(_, _, _)
AppliedLoop(entries, i, isTest) ==
    IF i > Len(entries) THEN <<>>
    ELSE (IF isTest THEN TestApplied(entries[i]) ELSE FileApplied(entries[i]))
         \o AppliedLoop(entries, i + 1, isTest)

PlanApplied(plan) ==
    AppliedLoop(plan.files, 1, FALSE) \o AppliedLoop(plan.tests, 1, TRUE)

\* _determine_task_type's normalisation of the classifier's response:
\* strip() removes the white space at both ends, lower() folds the case, and
\* what is then none of the four known types becomes "generic".
KnownTypes == {"implementation", "document_processing", "analysis", "generic"}
Responses == KnownTypes \cup {"other"}
RawResponses ==
    {" Implementation\n", "ANALYSIS", "Document_Processing", " generic ",
     "analysis task", ""}
Strip(s) ==
    CASE s = " Implementation\n" -> "Implementation"
      [] s = " generic " -> "generic"
      [] OTHER -> s
\* The comparison without the normalisation: the response itself is looked
\* up among the known types.
DetermineTaskTypeExact(resp) == IF resp \in KnownTypes THEN resp ELSE "generic"
DetermineTaskType(resp) ==
    LET task_type == Lower(Strip(resp))
    IN  IF task_type \in KnownTypes THEN task_type ELSE "generic"

\* The external call that raises during one _process_task run, if any.
Faults == {"none", "classify", "branch", "plan", "pull", "llm"}
ErrNoRepo == "GitHub repository not configured."
ErrText(fault) == fault

Raise(text, branch, applied) ==
    [kind |-> "exc", result |-> NoResult, error |-> text,
     branch |-> branch, applied |-> applied]
Return(result, branch, applied) ==
    [kind |-> "ok", result |-> result, error |-> NoError,
     branch |-> branch, applied |-> applied]

\* _process_task: what it returns or raises, whether task.branch_name was
\* assigned, and what was written to the branch.
ProcessTask(env, repoOk) ==
    IF env.fault = "classify" THEN Raise(ErrText("classify"), FALSE, <<>>)
    ELSE LET task_type == DetermineTaskType(env.resp) IN
    IF task_type = "implementation" THEN
        IF ~repoOk THEN Raise(ErrNoRepo, FALSE, <<>>)
        ELSE IF env.fault = "branch" THEN Raise(ErrText("branch"), FALSE, <<>>)
        ELSE IF env.fault = "plan" THEN Raise(ErrText("plan"), TRUE, <<>>)
        ELSE IF env.fault = "pull"
             THEN Raise(ErrText("pull"), TRUE, PlanApplied(env.plan))
        ELSE Return([task_type |-> task_type,
                     implemented_files |-> ImplementFeature(env.plan),
                     pull_request |-> TRUE],
                    TRUE, PlanApplied(env.plan))
    ELSE IF env.fault = "llm" THEN Raise(ErrText("llm"), FALSE, <<>>)
    ELSE Return([task_type |-> IF task_type \in {"document_processing", "analysis"}
                               THEN task_type ELSE "generic",
                 implemented_files |-> <<>>,
                 pull_request |-> FALSE], FALSE, <<>>)

\* The inputs of one _process_task run.
EnvsImpl ==
    [resp : {"implementation"}, fault : {"none", "pull"}, plan : Plans]
    \cup [resp : Responses, fault : Faults, plan : {EmptyPlan}]
NoEnv == [resp |-> "generic", fault |-> "none", plan |-> EmptyPlan]
EnvsOk == [resp : {"generic"}, fault : {"none"}, plan : {EmptyPlan}]
EnvsCore == [resp : {"generic"}, fault : {"none", "llm"}, plan : {EmptyPlan}]
EnvsClassify ==
    [resp : Responses \cup RawResponses, fault : {"none", "classify", "llm"},
     plan : {EmptyPlan}]

\* ------------------------------------------------------ GitHubIntegration
\* What one merge_pull_request call meets: whether get_repository finds the
\* repository, whether repo.get_pull returns, the pull request's mergeable
\* attribute (None while the provider has not computed it), whether
\* pr.merge returns, and the merged flag of what it returns.
MergeInputs ==
    [found : BOOLEAN, pull : BOOLEAN, mergeable : {"True", "False", "None"},
     mergeOk : BOOLEAN, merged : BOOLEAN]
NoMerge ==
    [found |-> FALSE, pull |-> FALSE, mergeable |-> "None", mergeOk |-> FALSE,
     merged |-> FALSE]
Truthy(v) == v = "True"

\* The call without its mergeable test.
MergePullRequestUntested(in) ==
    IF ~in.found \/ ~in.pull THEN [invoked |-> 0, ret |-> FALSE]
    ELSE IF ~in.mergeOk THEN [invoked |-> 1, ret |-> FALSE]
    ELSE [invoked |-> 1, ret |-> in.merged]
\* merge_pull_request: how often it invokes pr.merge and what it returns;
\* every exception inside the try block ends in `return False`.
MergePullRequest(in) ==
    IF ~in.found THEN [invoked |-> 0, ret |-> FALSE]
    ELSE IF ~in.pull THEN [invoked |-> 0, ret |-> FALSE]
    ELSE IF ~Truthy(in.mergeable) THEN [invoked |-> 0, ret |-> FALSE]
    ELSE IF ~in.mergeOk THEN [invoked |-> 1, ret |-> FALSE]
    ELSE [invoked |-> 1, ret |-> in.merged]

\* --------------------------------------------------- ImplementationPhases
\* Binary floating point as Python's float (IEEE 754 double): a value is
\* [m, e], m the 53 bits of its significand, most significant first and
\* starting with 1, and e the binary exponent of its last bit; zero has no
\* bits.
FloatZero == [m |-> <<>>, e |-> 0]

\* The w binary digits of q, and a bit string plus one in its last place
\* (<<>> when every bit is 1).
Bits(q, w) == [i \in 1..w |-> (q \div 2^(w - i)) % 2]
IncBits(b) ==
    IF \A i \in DOMAIN b : b[i] = 1 THEN <<>>
    ELSE LET j == CHOOSE i \in DOMAIN b : b[i] = 0 /\ \A k \in DOMAIN b : k > i => b[k] = 1
         IN  [i \in DOMAIN b |-> IF i < j THEN b[i] ELSE IF i = j THEN 1 ELSE 0]

\* A bit string with a 1 in it, whose last bit has the exponent e and which
\* is followed by a tail that is nonzero iff sticky, rounded to the nearest
\* float, ties to even.
RoundBits(all, sticky, e) ==
    LET P == 53
        first == CHOOSE i \in DOMAIN all : all[i] = 1 /\ \A k \in 1..(i - 1) : all[k] = 0
        bits == SubSeq(all, first, Len(all))
        L == Len(bits)
    IN  IF L <= P
        THEN [m |-> bits \o [i \in 1..(P - L) |-> 0], e |-> e - (P - L)]
        ELSE LET keep == SubSeq(bits, 1, P)
                 tail == sticky \/ \E i \in (P + 2)..L : bits[i] = 1
                 up == bits[P + 1] = 1 /\ (tail \/ keep[P] = 1)
             IN  IF ~up THEN [m |-> keep, e |-> e + (L - P)]
                 ELSE IF IncBits(keep) = <<>>
                 THEN [m |-> <<1>> \o [i \in 1..(P - 1) |-> 0], e |-> e + (L - P) + 1]
                 ELSE [m |-> IncBits(keep), e |-> e + (L - P)]

\* k / n for integers 0 <= k < 1024 * n with k * 1024 >= n: the ten bits of
\* the integer part, then eight times eight bits of the fraction by long
\* division, rounded.
FloatDiv(k, n) ==
    LET RECURSIVE Frac(_, _, _)
        Frac(x, j, acc) ==
            IF j = 0 THEN RoundBits(acc, x # 0, -64)
            ELSE Frac((x * 256) % n, j - 1, acc \o Bits((x * 256) \div n, 8))
    IN  IF k = 0 THEN FloatZero ELSE Frac(k % n, 8, Bits(k \div n, 10))

\* f * c for an integer 0 < c < 128: the significand, taken eight bits at a
\* time from its last bit, times c, rounded.
FloatMul(f, c) ==
    LET m == <<0, 0, 0>> \o f.m
        Chunk(j) == m[8*j - 7] * 128 + m[8*j - 6] * 64 + m[8*j - 5] * 32 + m[8*j - 4] * 16
                    + m[8*j - 3] * 8 + m[8*j - 2] * 4 + m[8*j - 1] * 2 + m[8*j]
        RECURSIVE Mul(_, _, _)
        Mul(j, carry, acc) ==
            IF j = 0 THEN RoundBits(Bits(carry, 7) \o acc, FALSE, f.e)
            ELSE Mul(j - 1, (Chunk(j) * c + carry) \div 256,
                     Bits((Chunk(j) * c + carry) % 256, 8) \o acc)
    IN  IF f = FloatZero THEN FloatZero ELSE Mul(7, 0, <<>>)

\* get_all_tasks: one entry per key of self.tasks, in the dict's order.
GetAllTasks == [i \in 1..Len(order) |-> objs[tasks[order[i]]]]

\* phase3_project_management's blocked_tasks of the snapshot all_tasks: for
\* each pending task with dependencies, in snapshot order, the first
\* dependency that is found in the snapshot with a status other than
\* completed; a dependency that is not found in the snapshot is passed over.
BlockedTasks(all_tasks) ==
    LET Blockers(i) ==
            {j \in DOMAIN all_tasks[i].dependencies :
               \E t \in DOMAIN all_tasks :
                  /\ all_tasks[t].task_id = all_tasks[i].dependencies[j]
                  /\ all_tasks[t].status # "completed"}
        blocked == SelectSeq([i \in DOMAIN all_tasks |-> i],
                             LAMBDA i : /\ all_tasks[i].status = "pending"
                                        /\ all_tasks[i].dependencies # <<>>
                                        /\ Blockers(i) # {})
    IN  [k \in DOMAIN blocked |->
           [task_id |-> all_tasks[blocked[k]].task_id,
            blocked_by |-> all_tasks[blocked[k]].dependencies[
                              CHOOSE j \in Blockers(blocked[k]) :
                                 \A l \in Blockers(blocked[k]) : j <= l]]]

\* The same metrics with the percentage taken over every finished task.
Phase3MetricsFinished(all_tasks) ==
    LET Tally(status) == Cardinality({i \in DOMAIN all_tasks : all_tasks[i].status = status})
        total_tasks == Len(all_tasks)
    IN  [total_tasks |-> total_tasks,
         completed_tasks |-> Tally("completed"),
         failed_tasks |-> Tally("failed"),
         pending_tasks |-> Tally("pending"),
         in_progress_tasks |-> Tally("in_progress"),
         completion_percentage |->
             IF total_tasks > 0
             THEN FloatMul(FloatDiv(Tally("completed") + Tally("failed"), total_tasks), 100)
             ELSE FloatZero,
         blocked_tasks |-> BlockedTasks(all_tasks)]
\* phase3_project_management's metrics of the snapshot all_tasks.
Phase3Metrics(all_tasks) ==
    LET Tally(status) == Cardinality({i \in DOMAIN all_tasks : all_tasks[i].status = status})
        total_tasks == Len(all_tasks)
    IN  [total_tasks |-> total_tasks,
         completed_tasks |-> Tally("completed"),
         failed_tasks |-> Tally("failed"),
         pending_tasks |-> Tally("pending"),
         in_progress_tasks |-> Tally("in_progress"),
         completion_percentage |->
             IF total_tasks > 0
             THEN FloatMul(FloatDiv(Tally("completed"), total_tasks), 100)
             ELSE FloatZero,
         blocked_tasks |-> BlockedTasks(all_tasks)]
NoReport == Phase3Metrics(<<>>)

\* The files the phases and execute_all_phases write to the project directory.
File ==
    [plan |-> "implementation_plan.json",
     report |-> "project_management_report.json",
     analysis |-> "post_merge_analysis.json",
     results |-> "implementation_phases_results.json"]

\* The tasks of an implementation plan, in plan order: the plan names its
\* tasks 1, 2, ... and a task may depend on the other task or on a name that
\* is no task of the plan.
PlanChoices ==
    LET PlanTasks(name) ==
            [name : {name}, priority : {"medium"},
             dependencies : {<<>>, <<3 - name>>, <<MaxIds + 1>>}]
    IN  {<<>>} \cup {<<t>> : t \in PlanTasks(1)}
               \cup {<<t, u>> : t \in PlanTasks(1), u \in PlanTasks(2)}

\* execute_all_phases: the position after the phase at position pc returned
\* (SkipsReport: a variant that goes from development to the analysis).
NextPhaseSkipsReport(pc) ==
    CASE pc = "p1" -> "p2" [] pc = "p2" -> "p4" [] pc = "p3" -> "p4"
      [] pc = "p4" -> "write" [] OTHER -> "done"
NextPhase(pc) ==
    CASE pc = "p1" -> "p2" [] pc = "p2" -> "p3" [] pc = "p3" -> "p4"
      [] pc = "p4" -> "write" [] OTHER -> "done"

\* Where an exception raised at position pc leaves execute_all_phases: no
\* phase method and execute_all_phases itself has no except clause
\* (Swallowed: a variant that goes on with the next phase).
RaisedSwallowed(pc) == NextPhase(pc)
Raised(pc) == "raised"

\* The test that ends phase 2's wait for a task (Unblocked: a variant that
\* also gives up on a task that is not being processed).
WaitOverUnblocked(status) == status # "in_progress"
WaitOver(status) == ~(status # "completed" /\ status # "failed")

\* ------------------------------------------------------- SlackIntegration
\* Project names ("" for the omitted name) and repository arguments; a
\* repository argument is written as the list of its pieces between
\* slashes: "https://github.com/owner/repo/" is
\* <<"https:", "", "github.com", "owner", "repo", "">>.
ProjectNames == {"", "a", "b"}
RepoUrls ==
    {<<"owner", "repo">>,
     <<"https:", "", "github.com", "owner", "repo">>,
     <<"https:", "", "github.com", "owner", "repo", "">>,
     <<"https:", "", "github.com", "other", "repo.git">>,
     <<"http:", "", "">>}

\* add_project's repo_name: for an argument that starts with "http", the
\* last two pieces of repo_url.strip("/").split("/"), and "invalid" (the
\* early return) when there are fewer than two; the argument itself
\* otherwise.
RepoName(repo_url) ==
    LET RECURSIVE StripSlash(_)
        StripSlash(u) ==
            IF Len(u) > 1 /\ u[1] = "" THEN StripSlash(Tail(u))
            ELSE IF Len(u) > 1 /\ u[Len(u)] = "" THEN StripSlash(SubSeq(u, 1, Len(u) - 1))
            ELSE u
        parts == StripSlash(repo_url)
    IN  IF repo_url[1] \in {"http", "http:", "https:"}
        THEN IF Len(parts) >= 2
             THEN <<parts[Len(parts) - 1], parts[Len(parts)]>>
             ELSE "invalid"
        ELSE repo_url

\* -------------------------------------------------------------------- Init
\* AssistantAgent.__init__: empty queue and task map, no workers, not
\* running; self.repo is set when a token and a repository name were given.
InitAgent(repos) ==
    /\ objs = <<>>
    /\ tasks = [i \in Keys |-> 0]
    /\ order = <<>>
    /\ task_queue = <<>>
    /\ unfinished = 0
    /\ task_lock = NoThread
    /\ running = FALSE
    /\ workers = {}
    /\ spawned = 0
    /\ wpc = [t \in Threads |-> "unborn"]
    /\ wtask = [t \in Threads |-> 0]
    /\ wout = [t \in Threads |-> NoOutcome]
    /\ wenv = [t \in Threads |-> NoEnv]
    /\ branch_files = <<>>
    /\ repo \in repos
    /\ apc = "idle"
    /\ atask = 0
    /\ spc = "idle"
    /\ sidx = 0
    /\ mpc = "idle"
    /\ mcount = 0

\* route_task: human_intervention when the analysis asks for a human,
\* otherwise the node of the task type, generic for an unknown type.
RouteTask(task) ==
    IF task.requires_human THEN "human_intervention"
    ELSE IF task.task_type \in {"implementation", "document_processing", "analysis",
                                "project_management", "generic"}
    THEN task.task_type
    ELSE "generic"

\* create_agent_graph: the eight nodes and the edges it adds, then
\* compile(). add_edge takes the name of a node as the end of an edge;
\* line 548 passes the function route_task there, which is no node of the
\* graph, and compile() refuses a graph with an edge that ends at an
\* unknown node (ValueError).
CreateAgentGraph ==
    LET tasks_nodes == {"implementation", "document_processing", "analysis",
                        "project_management", "generic", "human_intervention"}
        nodes == {"analyze_request", "format_response"} \cup tasks_nodes
        edges == {<<"analyze_request", "<function route_task>">>,
                  <<"format_response", "END">>}
                    \cup {<<n, "format_response">> : n \in tasks_nodes}
    IN  IF \A e \in edges : e[1] \in nodes /\ e[2] \in nodes \cup {"END"}
        THEN "compiled" ELSE "ValueError"

\* What the LLM of analyze_request answers for a request.
Analyses ==
    [task_type : {"implementation", "project_management", "research"},
     requires_human : BOOLEAN]

\* LangGraphSlackInterface.__init__: line 43 calls create_agent_graph();
\* when that raises, the attributes of lines 43 and 46 (agent_graph,
\* conversations) are never assigned.
InitInterface ==
    [made |-> CreateAgentGraph = "compiled",
     conversations |-> [c \in {"C1", "C2"} \X {1, 2} |->
                          [present |-> FALSE, messages |-> <<>>, status |-> "pending",
                           results |-> <<>>, errors |-> <<>>]],
     log |-> <<>>]

\* No LangGraphWorkflow run is in progress. tools_output of the AgentState
\* is None, or the dict with the pending invocations and, once they have
\* run, their results.
IdleWorkflow ==
    [pc |-> "idle", last |-> "START", response |-> <<>>, messages |-> <<>>,
     sender |-> "None", error |-> "None",
     tools_output |-> [none |-> TRUE, invocations |-> <<>>, results |-> <<>>],
     executed |-> <<>>, steps |-> 0]

\* No start() call is in progress; the integrations have not been called.
InitCallers ==
    /\ stpc = [c \in Callers |-> "idle"]
    /\ gh = [calls |-> 0, in |-> NoMerge, out |-> MergePullRequest(NoMerge)]
    /\ ph = [pc |-> "idle", exc |-> FALSE, plan |-> <<>>, idx |-> 0, cur |-> 0,
             files |-> {}, report |-> NoReport]
    /\ sl = [projects |-> "no attribute", log |-> <<>>]
    /\ rag = <<>>
    /\ wf = IdleWorkflow
    /\ li = InitInterface
    /\ sb = [message_handlers |-> <<>>, log |-> <<>>]
    /\ ml = <<>>

Init == InitAgent({TRUE}) /\ InitCallers

\* The same, with or without a configured repository.
InitAnyRepo == InitAgent(BOOLEAN) /\ InitCallers

\* Groups of variables an action leaves alone.
taskVars == <<objs, tasks, order>>
queueVars == <<task_queue, unfinished>>
workerVars == <<wpc, wtask, wout, wenv>>
addVars == <<apc, atask>>
sweepVars == <<spc, sidx>>
mainVars == <<mpc, mcount>>
poolVars == <<running, workers, spawned>>

\* The agent's state, the integrations' state, and the state outside the
\* agent's own calls and workers.
agentVars == <<taskVars, queueVars, task_lock, poolVars, workerVars,
               branch_files, repo, addVars, sweepVars, mainVars>>
graphVars == <<rag, wf, li>>
bridgeVars == <<sb, ml>>
otherVars == <<gh, ph, sl, graphVars, bridgeVars>>
outerVars == <<stpc, otherVars>>

\* ---------------------------------------------------------------- add_task
\* add_task up to the end of its locked block: the Task is constructed and
\* stored under its id (an existing key keeps its place in the dict order).
AddTaskStore(task_id, priority, dependencies, maxTasks) ==
    /\ apc = "idle"
    /\ Len(objs) < maxTasks
    /\ task_lock = NoThread
    /\ objs' = Append(objs, NewTask(task_id, PriorityEnum(priority), dependencies))
    /\ branch_files' = Append(branch_files, <<>>)
    /\ tasks' = [tasks EXCEPT ![task_id] = Len(objs) + 1]
    /\ order' = IF tasks[task_id] = 0 THEN Append(order, task_id) ELSE order
    /\ apc' = "check"
    /\ atask' = Len(objs) + 1
    /\ UNCHANGED <<queueVars, task_lock, poolVars, workerVars, repo, sweepVars,
                   mainVars>>

\* add_task's dependency test, made after the lock has been released.
AddTaskCheck ==
    /\ apc = "check"
    /\ apc' = IF CanQueue(objs[atask].dependencies) THEN "put" ELSE "idle"
    /\ atask' = IF CanQueue(objs[atask].dependencies) THEN atask ELSE 0
    /\ UNCHANGED <<taskVars, queueVars, task_lock, poolVars, workerVars,
                   branch_files, repo, sweepVars, mainVars>>

\* queue.PriorityQueue.put: heappush, then the unfinished count; a
\* comparison that raises leaves the item in the heap and skips the count.
QueuePut(item) ==
    LET r == HeapPush(task_queue, item)
    IN  /\ task_queue' = r.heap
        /\ unfinished' = IF r.ok THEN unfinished + 1 ELSE unfinished

PutRaises(item) == ~HeapPush(task_queue, item).ok

\* add_task's put of the new Task (TypeError propagates to the caller).
AddTaskPut(maxQueue) ==
    /\ apc = "put"
    /\ Len(task_queue) < maxQueue
    /\ unfinished < MaxUnfinished
    /\ QueuePut(atask)
    /\ apc' = "idle"
    /\ atask' = 0
    /\ UNCHANGED <<taskVars, task_lock, poolVars, workerVars, branch_files,
                   repo, sweepVars, mainVars>>

\* ------------------------------------------------------ check_dependencies
\* check_dependencies takes the lock and starts its pass over self.tasks.
SweepBegin ==
    /\ spc = "idle"
    /\ task_lock = NoThread
    /\ task_lock' = Sweeper
    /\ spc' = "sweep"
    /\ sidx' = 1
    /\ UNCHANGED <<taskVars, queueVars, poolVars, workerVars, branch_files,
                   repo, addVars, mainVars>>

\* Whether the pass enqueues the Task: PENDING with every dependency COMPLETED.
SweepQueues(t) ==
    objs[t].status = PENDING /\ CanQueue(objs[t].dependencies)

\* One iteration of the pass, or its end; a put that raises ends the call
\* (the with statement releases the lock).
SweepStep(maxQueue) ==
    /\ spc = "sweep"
    /\ IF sidx > Len(order)
       THEN /\ spc' = "idle"
            /\ sidx' = 0
            /\ task_lock' = NoThread
            /\ UNCHANGED queueVars
       ELSE LET t == tasks[order[sidx]]
            IN  IF SweepQueues(t)
                THEN /\ Len(task_queue) < maxQueue
                     /\ unfinished < MaxUnfinished
                     /\ QueuePut(t)
                     /\ IF PutRaises(t)
                        THEN /\ spc' = "idle"
                             /\ sidx' = 0
                             /\ task_lock' = NoThread
                        ELSE /\ sidx' = sidx + 1
                             /\ UNCHANGED <<spc, task_lock>>
                ELSE /\ sidx' = sidx + 1
                     /\ UNCHANGED <<spc, task_lock, queueVars>>
    /\ UNCHANGED <<taskVars, poolVars, workerVars, branch_files, repo,
                   addVars, mainVars>>

\* ------------------------------------------------------------ start / stop
\* start(): a no-op when already running, else max_workers new threads.
Start(max_workers) ==
    /\ mpc = "idle"
    /\ IF running
       THEN UNCHANGED <<poolVars, wpc>>
       ELSE /\ spawned + max_workers <= MaxStarts * max_workers
            /\ running' = TRUE
            /\ spawned' = spawned + max_workers
            /\ workers' = workers \cup ((spawned + 1)..(spawned + max_workers))
            /\ wpc' = [t \in Threads |->
                         IF t \in (spawned + 1)..(spawned + max_workers)
                         THEN "loop" ELSE wpc[t]]
    /\ UNCHANGED <<taskVars, queueVars, task_lock, wtask, wout, wenv,
                   branch_files, repo, addVars, sweepVars, mainVars>>

\* stop() clears the running flag.
StopBegin ==
    /\ mpc = "idle"
    /\ running' = FALSE
    /\ mpc' = "sentinels"
    /\ mcount' = 0
    /\ UNCHANGED <<taskVars, queueVars, task_lock, workers, spawned, workerVars,
                   branch_files, repo, addVars, sweepVars>>

\* stop() puts one sentinel; a put that raises ends the call there.
StopPut(max_workers, maxQueue) ==
    /\ mpc = "sentinels"
    /\ mcount < max_workers
    /\ Len(task_queue) < maxQueue
    /\ unfinished < MaxUnfinished
    /\ QueuePut(NoneItem)
    /\ IF PutRaises(NoneItem)
       THEN /\ mpc' = "idle"
            /\ mcount' = 0
       ELSE /\ mcount' = mcount + 1
            /\ UNCHANGED mpc
    /\ UNCHANGED <<taskVars, task_lock, poolVars, workerVars, branch_files,
                   repo, addVars, sweepVars>>

\* stop() joins each worker for at most 5 seconds and empties self.workers.
StopJoin(max_workers) ==
    /\ mpc = "sentinels"
    /\ mcount = max_workers
    /\ workers' = {}
    /\ mpc' = "idle"
    /\ mcount' = 0
    /\ UNCHANGED <<taskVars, queueVars, task_lock, running, spawned, workerVars,
                   branch_files, repo, addVars, sweepVars>>

\* ---------------------------------------------------------- _worker_thread
\* The loop test: while self.running.
WLoop(w) ==
    /\ wpc[w] = "loop"
    /\ wpc' = [wpc EXCEPT ![w] = IF running THEN "get" ELSE "exited"]
    /\ UNCHANGED <<taskVars, queueVars, task_lock, poolVars, wtask, wout, wenv,
                   branch_files, repo, addVars, sweepVars, mainVars>>

\* Where the worker goes after task_queue.get(timeout=1.0) returned or let
\* an exception of the pop through: the exception goes back to the loop
\* test; the sentinel ends the thread, unless task_done() raises ValueError
\* first; a Task is processed.
AfterGet(popped, count) ==
    IF ~popped.ok THEN "loop"
    ELSE IF popped.item = NoneItem
         THEN (IF count > 0 THEN "exited" ELSE "loop")
    ELSE "got"

\* queue.Queue.task_done: the count after the call (unchanged when it raises).
TaskDone(count) == IF count > 0 THEN count - 1 ELSE count

\* task_queue.get(timeout=1.0): queue.Empty on an empty queue, else heappop.
WGet(w) ==
    /\ wpc[w] = "get"
    /\ IF task_queue = <<>>
       THEN /\ wpc' = [wpc EXCEPT ![w] = "loop"]
            /\ UNCHANGED <<queueVars, wtask>>
       ELSE LET popped == HeapPop(task_queue)
                next == AfterGet(popped, unfinished)
            IN  /\ task_queue' = popped.heap
                /\ wpc' = [wpc EXCEPT ![w] = next]
                /\ wtask' = [wtask EXCEPT ![w] = IF next = "got" THEN popped.item ELSE 0]
                /\ unfinished' = IF popped.ok /\ popped.item = NoneItem
                                 THEN TaskDone(unfinished) ELSE unfinished
    /\ UNCHANGED <<taskVars, task_lock, poolVars, wout, wenv, branch_files,
                   repo, addVars, sweepVars, mainVars>>

\* The first locked block: task.status = IN_PROGRESS.
WBegin(w) ==
    /\ wpc[w] = "got"
    /\ task_lock = NoThread
    /\ objs' = [objs EXCEPT ![wtask[w]].status = IN_PROGRESS]
    /\ wpc' = [wpc EXCEPT ![w] = "proc"]
    /\ UNCHANGED <<tasks, order, queueVars, task_lock, poolVars, wtask, wout,
                   wenv, branch_files, repo, addVars, sweepVars, mainVars>>

\* asyncio.run(self._process_task(task)), with what the LLM and the
\* repository answer drawn from envs; task.branch_name is assigned inside,
\* outside any locked block (the name is derived from the task id; its
\* random suffix is left out).
WProcess(w, envs) ==
    /\ wpc[w] = "proc"
    /\ \E env \in envs :
         LET out == ProcessTask(env, repo)
             t == wtask[w]
         IN  /\ objs' = IF out.branch
                        THEN [objs EXCEPT ![t].branch_name = objs[t].task_id]
                        ELSE objs
             /\ branch_files' = IF out.branch
                                THEN [branch_files EXCEPT ![t] = out.applied]
                                ELSE branch_files
             /\ wout' = [wout EXCEPT ![w] = [kind |-> out.kind, result |-> out.result,
                                             error |-> out.error]]
             /\ wenv' = [wenv EXCEPT ![w] = env]
    /\ wpc' = [wpc EXCEPT ![w] = "store"]
    /\ UNCHANGED <<tasks, order, queueVars, task_lock, poolVars, wtask, repo,
                   addVars, sweepVars, mainVars>>

\* The Task after the locked block of the try or of the except branch.
Stored(task, out) ==
    IF out.kind = "ok"
    THEN [task EXCEPT !.result = out.result, !.status = COMPLETED]
    ELSE [task EXCEPT !.error = out.error, !.status = FAILED]

\* The worker's position after it has recorded a result or an exception
\* (AfterStoreDies: a faulty variant in which a failed task ends the thread).
AfterStoreDies(out) == IF out.kind = "exc" THEN "exited" ELSE "loop"
AfterStore(out) == "loop"

\* The second locked block and the finally clause.
WStore(w) ==
    /\ wpc[w] = "store"
    /\ task_lock = NoThread
    /\ objs' = [objs EXCEPT ![wtask[w]] = Stored(objs[wtask[w]], wout[w])]
    /\ unfinished' = TaskDone(unfinished)
    /\ wpc' = [wpc EXCEPT ![w] = AfterStore(wout[w])]
    /\ wtask' = [wtask EXCEPT ![w] = 0]
    /\ wout' = [wout EXCEPT ![w] = NoOutcome]
    /\ wenv' = [wenv EXCEPT ![w] = NoEnv]
    /\ UNCHANGED <<tasks, order, task_queue, task_lock, poolVars, branch_files,
                   repo, addVars, sweepVars, mainVars>>

\* --------------------------------------------------------------------- Spec
AddTask(ids, priorities, depLists, maxTasks) ==
    \E task_id \in ids, priority \in priorities, dependencies \in depLists :
        AddTaskStore(task_id, priority, dependencies, maxTasks)

\* The agent with the callers the chat bridge gives it while it runs: the
\* handler thread calling add_task, the background thread calling
\* check_dependencies, and the workers start() created; every step of one
\* thread may interleave with those of the others.
Next ==
    \/ Start(MaxWorkers) /\ UNCHANGED outerVars
    \/ AddTask(Ids, {"medium"}, DepLists, MaxTasks) /\ UNCHANGED outerVars
    \/ AddTaskCheck /\ UNCHANGED outerVars
    \/ AddTaskPut(MaxQueue) /\ UNCHANGED outerVars
    \/ SweepBegin /\ UNCHANGED outerVars
    \/ SweepStep(MaxQueue) /\ UNCHANGED outerVars
    \/ \E w \in Threads : WLoop(w) /\ UNCHANGED outerVars
    \/ \E w \in Threads : WGet(w) /\ UNCHANGED outerVars
    \/ \E w \in Threads : WBegin(w) /\ UNCHANGED outerVars
    \/ \E w \in Threads : WProcess(w, EnvsCore) /\ UNCHANGED outerVars
    \/ \E w \in Threads : WStore(w) /\ UNCHANGED outerVars

Spec == Init /\ [][Next]_vars

\* No public call is in progress and no worker is inside a loop iteration.
Quiet ==
    /\ apc = "idle"
    /\ spc = "idle"
    /\ mpc = "idle"
    /\ \A w \in Threads : wpc[w] \in {"unborn", "loop", "exited"}

\* An agent constructed with max_workers = SeqWorkers and driven one call
\* at a time (each public call and each worker iteration runs to its end
\* before the next begins), with stop() and a second start(), two
\* priorities and a longer queue.
NextSeq ==
    \/ Quiet /\ Start(SeqWorkers) /\ UNCHANGED outerVars
    \/ Quiet /\ StopBegin /\ UNCHANGED outerVars
    \/ StopPut(SeqWorkers, SeqMaxQueue) /\ UNCHANGED outerVars
    \/ StopJoin(SeqWorkers) /\ UNCHANGED outerVars
    \/ Quiet /\ AddTask({Len(objs) + 1} \cap Ids, {"low", "HIGH"}, {<<>>}, MaxTasks) /\ UNCHANGED outerVars
    \/ AddTaskCheck /\ UNCHANGED outerVars
    \/ AddTaskPut(SeqMaxQueue) /\ UNCHANGED outerVars
    \/ Quiet /\ SweepBegin /\ UNCHANGED outerVars
    \/ SweepStep(SeqMaxQueue) /\ UNCHANGED outerVars
    \/ \E w \in Threads : Quiet /\ WLoop(w) /\ UNCHANGED outerVars
    \/ \E w \in Threads : WGet(w) /\ UNCHANGED outerVars
    \/ \E w \in Threads : WBegin(w) /\ UNCHANGED outerVars
    \/ \E w \in Threads : WProcess(w, EnvsOk) /\ UNCHANGED outerVars
    \/ \E w \in Threads : WStore(w) /\ UNCHANGED outerVars

SpecSeq == Init /\ [][NextSeq]_vars

\* A small agent (max_workers = SeqWorkers) whose threads interleave freely,
\* with stop() and a second start(). The scheduler is fair to every worker
\* thread, and every processing returns or raises (WProcess always has a
\* successor); the callers of add_task, start and stop are not forced to
\* call.
WorkerStep(w) ==
    \/ WLoop(w) /\ UNCHANGED outerVars
    \/ WGet(w) /\ UNCHANGED outerVars
    \/ WBegin(w) /\ UNCHANGED outerVars
    \/ WProcess(w, EnvsOk) /\ UNCHANGED outerVars
    \/ WStore(w) /\ UNCHANGED outerVars

NextLive ==
    \/ Start(SeqWorkers) /\ UNCHANGED outerVars
    \/ StopBegin /\ UNCHANGED outerVars
    \/ StopPut(SeqWorkers, MaxQueue) /\ UNCHANGED outerVars
    \/ StopJoin(SeqWorkers) /\ UNCHANGED outerVars
    \/ AddTask({Len(objs) + 1} \cap Ids, {"medium"}, {<<>>}, MaxTasks) /\ UNCHANGED outerVars
    \/ AddTaskCheck /\ UNCHANGED outerVars
    \/ AddTaskPut(MaxQueue) /\ UNCHANGED outerVars
    \/ \E w \in Threads : WorkerStep(w)

SpecLive ==
    /\ Init
    /\ [][NextLive]_vars
    /\ \A w \in Threads : WF_vars(WorkerStep(w))

\* The agent fed by add_task alone with tasks that have no dependencies, of
\* every priority: the queue order is decided by the heap and Task.__lt__.
NextQueue ==
    \/ Start(MaxWorkers) /\ UNCHANGED outerVars
    \/ AddTask(Ids, PriorityTexts, {<<>>}, QueueMaxTasks) /\ UNCHANGED outerVars
    \/ AddTaskCheck /\ UNCHANGED outerVars
    \/ AddTaskPut(MaxQueue) /\ UNCHANGED outerVars
    \/ \E w \in Threads : WLoop(w) /\ UNCHANGED outerVars
    \/ \E w \in Threads : WGet(w) /\ UNCHANGED outerVars
    \/ \E w \in Threads : WBegin(w) /\ UNCHANGED outerVars
    \/ \E w \in Threads : WProcess(w, EnvsCore) /\ UNCHANGED outerVars
    \/ \E w \in Threads : WStore(w) /\ UNCHANGED outerVars

SpecQueue == Init /\ [][NextQueue]_vars

\* The agent driven one call at a time with tasks that have no
\* dependencies, whose processing meets every classifier answer, every
\* failing external call and every implementation plan.
NextImpl ==
    \/ Quiet /\ Start(MaxWorkers) /\ UNCHANGED outerVars
    \/ Quiet /\ AddTask({Len(objs) + 1} \cap Ids, {"medium"}, {<<>>}, MaxTasks) /\ UNCHANGED outerVars
    \/ AddTaskCheck /\ UNCHANGED outerVars
    \/ AddTaskPut(MaxQueue) /\ UNCHANGED outerVars
    \/ \E w \in Threads : Quiet /\ WLoop(w) /\ UNCHANGED outerVars
    \/ \E w \in Threads : WGet(w) /\ UNCHANGED outerVars
    \/ \E w \in Threads : WBegin(w) /\ UNCHANGED outerVars
    \/ \E w \in Threads : WProcess(w, EnvsImpl) /\ UNCHANGED outerVars
    \/ \E w \in Threads : WStore(w) /\ UNCHANGED outerVars

SpecImpl == InitAnyRepo /\ [][NextImpl]_vars

\* Tasks whose classifier responses come as the model wrote them, with
\* white space and capitals.
NextClassify ==
    \/ Quiet /\ Start(SeqWorkers) /\ UNCHANGED outerVars
    \/ Quiet /\ AddTask({Len(objs) + 1} \cap Ids, {"medium"}, {<<>>}, MaxTasks) /\ UNCHANGED outerVars
    \/ AddTaskCheck /\ UNCHANGED outerVars
    \/ AddTaskPut(MaxQueue) /\ UNCHANGED outerVars
    \/ \E w \in Threads : Quiet /\ WLoop(w) /\ UNCHANGED outerVars
    \/ \E w \in Threads : WGet(w) /\ UNCHANGED outerVars
    \/ \E w \in Threads : WBegin(w) /\ UNCHANGED outerVars
    \/ \E w \in Threads : WProcess(w, EnvsClassify) /\ UNCHANGED outerVars
    \/ \E w \in Threads : WStore(w) /\ UNCHANGED outerVars

SpecClassify == InitAnyRepo /\ [][NextClassify]_vars

\* ------------------------------------------- ImplementationPhases' calls
\* phase3_project_management, entered at position from and left at position
\* to: the snapshot is taken under task_lock, the metrics are computed from
\* it and the report is written.
Phase3(from, to) ==
    /\ ph.pc = from
    /\ task_lock = NoThread
    /\ ph' = [ph EXCEPT !.pc = to, !.report = Phase3Metrics(GetAllTasks),
                        !.files = @ \cup {File.report}]
    /\ UNCHANGED <<agentVars, stpc, gh, sl, graphVars, bridgeVars>>

\* execute_all_phases is called.
ExecuteAll ==
    /\ ph.pc = "idle"
    /\ ph' = [ph EXCEPT !.pc = "p1"]
    /\ UNCHANGED <<agentVars, stpc, gh, sl, graphVars, bridgeVars>>

\* phase1_project_initialization: initialize_project returns None when it
\* finds no requirement document, and otherwise the plan it has saved.
Phase1 ==
    /\ ph.pc = "p1"
    /\ \/ ph' = [ph EXCEPT !.pc = NextPhase("p1"), !.idx = 1]
       \/ \E plan \in PlanChoices :
            ph' = [ph EXCEPT !.pc = NextPhase("p1"), !.idx = 1, !.plan = plan,
                             !.files = @ \cup {File.plan}]
    /\ UNCHANGED <<agentVars, stpc, gh, sl, graphVars, bridgeVars>>

\* phase2_development_cycle at the head of its loop: it returns when there
\* is no plan or no further task, and otherwise calls add_task for the next
\* task of the plan.
Phase2Next ==
    /\ ph.pc = "p2"
    /\ IF ph.idx > Len(ph.plan)
       THEN /\ ph' = [ph EXCEPT !.pc = NextPhase("p2")]
            /\ UNCHANGED agentVars
       ELSE /\ AddTask({ph.plan[ph.idx].name}, {ph.plan[ph.idx].priority},
                       {ph.plan[ph.idx].dependencies}, MaxTasks)
            /\ ph' = [ph EXCEPT !.pc = "p2_wait", !.cur = Len(objs) + 1]
    /\ UNCHANGED <<stpc, gh, sl, graphVars, bridgeVars>>

\* One turn of phase 2's wait loop, after add_task returned: the status is
\* tested without the lock; if the wait is over get_task_status is called
\* and the loop goes to the next task, and otherwise check_dependencies is
\* called after the sleep.
Phase2Poll ==
    /\ ph.pc = "p2_wait"
    /\ apc = "idle"
    /\ spc = "idle"
    /\ task_lock = NoThread
    /\ IF WaitOver(objs[ph.cur].status)
       THEN /\ ph' = [ph EXCEPT !.pc = "p2", !.idx = @ + 1, !.cur = 0]
            /\ UNCHANGED agentVars
       ELSE /\ SweepBegin
            /\ UNCHANGED ph
    /\ UNCHANGED <<stpc, gh, sl, graphVars, bridgeVars>>

\* phase4_post_merge_analysis.
Phase4 ==
    /\ ph.pc = "p4"
    /\ ph' = [ph EXCEPT !.pc = NextPhase("p4"), !.files = @ \cup {File.analysis}]
    /\ UNCHANGED <<agentVars, stpc, gh, sl, graphVars, bridgeVars>>

\* execute_all_phases compiles and saves the results of the four phases.
WriteResults ==
    /\ ph.pc = "write"
    /\ ph' = [ph EXCEPT !.pc = "done", !.files = @ \cup {File.results}]
    /\ UNCHANGED <<agentVars, stpc, gh, sl, graphVars, bridgeVars>>

\* A call made inside a phase raises (the language model, the repository,
\* the file system): in phase 2 before add_task, in phases 3 and 4 before
\* the phase writes its file.
PhaseRaise ==
    /\ ph.pc \in {"p1", "p2", "p3", "p4"}
    /\ ~ph.exc
    /\ ph' = [ph EXCEPT !.pc = Raised(ph.pc), !.exc = TRUE]
    /\ UNCHANGED <<agentVars, stpc, gh, sl, graphVars, bridgeVars>>

\* execute_all_phases with the agent it drives.
NextPhases ==
    \/ Start(MaxWorkers) /\ UNCHANGED outerVars
    \/ ExecuteAll
    \/ Phase1
    \/ Phase2Next
    \/ AddTaskCheck /\ UNCHANGED outerVars
    \/ AddTaskPut(MaxQueue) /\ UNCHANGED outerVars
    \/ Phase2Poll
    \/ SweepStep(MaxQueue) /\ UNCHANGED outerVars
    \/ Phase3("p3", NextPhase("p3"))
    \/ Phase4
    \/ WriteResults
    \/ PhaseRaise
    \/ \E w \in Threads : WLoop(w) /\ UNCHANGED outerVars
    \/ \E w \in Threads : WGet(w) /\ UNCHANGED outerVars
    \/ \E w \in Threads : WBegin(w) /\ UNCHANGED outerVars
    \/ \E w \in Threads : WProcess(w, EnvsCore) /\ UNCHANGED outerVars
    \/ \E w \in Threads : WStore(w) /\ UNCHANGED outerVars

SpecPhases == Init /\ [][NextPhases]_vars

\* phase3_project_management called on its own while the agent works.
NextReport ==
    \/ Quiet /\ Start(SeqWorkers) /\ UNCHANGED outerVars
    \/ Quiet /\ AddTask({Len(objs) + 1} \cap Keys, {"medium"}, {<<>>}, MaxKeys) /\ UNCHANGED outerVars
    \/ AddTaskCheck /\ UNCHANGED outerVars
    \/ AddTaskPut(MaxKeys) /\ UNCHANGED outerVars
    \/ \E w \in Threads : Quiet /\ WLoop(w) /\ UNCHANGED outerVars
    \/ \E w \in Threads : WGet(w) /\ UNCHANGED outerVars
    \/ \E w \in Threads : WBegin(w) /\ UNCHANGED outerVars
    \/ \E w \in Threads : WProcess(w, EnvsCore) /\ UNCHANGED outerVars
    \/ \E w \in Threads : WStore(w) /\ UNCHANGED outerVars
    \/ Phase3("idle", "idle")

SpecReport == Init /\ [][NextReport]_vars

\* Phase 3 over tasks with dependencies: tasks 1..MaxBlockedTasks are added
\* in turn, each depending on nothing, on task 1, on a name that is never
\* registered, or on both in either order.
BlockedDeps ==
    {<<>>, <<1>>, <<MaxBlockedTasks + 1>>, <<MaxBlockedTasks + 1, 1>>,
     <<1, MaxBlockedTasks + 1>>}

NextBlocked ==
    \/ Quiet /\ Start(SeqWorkers) /\ UNCHANGED outerVars
    \/ Quiet /\ AddTask({Len(objs) + 1} \cap 1..MaxBlockedTasks, {"medium"}, BlockedDeps,
                        MaxBlockedTasks) /\ UNCHANGED outerVars
    \/ AddTaskCheck /\ UNCHANGED outerVars
    \/ AddTaskPut(MaxKeys) /\ UNCHANGED outerVars
    \/ Quiet /\ SweepBegin /\ UNCHANGED outerVars
    \/ SweepStep(MaxKeys) /\ UNCHANGED outerVars
    \/ \E w \in Threads : Quiet /\ WLoop(w) /\ UNCHANGED outerVars
    \/ \E w \in Threads : WGet(w) /\ UNCHANGED outerVars
    \/ \E w \in Threads : WBegin(w) /\ UNCHANGED outerVars
    \/ \E w \in Threads : WProcess(w, EnvsCore) /\ UNCHANGED outerVars
    \/ \E w \in Threads : WStore(w) /\ UNCHANGED outerVars
    \/ Phase3("idle", "idle")

SpecBlocked == Init /\ [][NextBlocked]_vars

\* ----------------------------------------------- SlackIntegration's calls
\* add_project: self.projects is a dict {name: project} in insertion order
\* once the attribute exists; __init__ never creates it, and the assignment
\* self.projects[project_name] = ... then raises AttributeError.
AddProject ==
    /\ Len(sl.log) < MaxBridgeCalls
    /\ \E project_name \in ProjectNames \ {""}, repo_url \in RepoUrls :
         LET repo_name == RepoName(repo_url)
             call == [op |-> "add_project", name |-> project_name, url |-> repo_url]
             project == [name |-> project_name, repo_name |-> repo_name]
             known == sl.projects # "no attribute" /\
                      \E i \in DOMAIN sl.projects : sl.projects[i].name = project_name
         IN  IF repo_name = "invalid"
             THEN sl' = [sl EXCEPT !.log = Append(@, <<call, "None">>)]
             ELSE IF sl.projects = "no attribute"
             THEN sl' = [sl EXCEPT !.log = Append(@, <<call, "AttributeError">>)]
             ELSE sl' = [projects |->
                            IF known
                            THEN [i \in DOMAIN sl.projects |->
                                    IF sl.projects[i].name = project_name
                                    THEN project ELSE sl.projects[i]]
                            ELSE Append(sl.projects, project),
                         log |-> Append(sl.log, <<call, "None">>)]
    /\ UNCHANGED <<agentVars, stpc, gh, ph, graphVars, bridgeVars>>

\* get_project: the first project for an omitted name, None when there is
\* no project or no project of that name; AttributeError without the
\* attribute.
GetProject ==
    /\ Len(sl.log) < MaxBridgeCalls
    /\ \E project_name \in ProjectNames :
         LET call == [op |-> "get_project", name |-> project_name, url |-> <<>>]
             out == IF sl.projects = "no attribute" THEN "AttributeError"
                    ELSE IF project_name = ""
                    THEN IF sl.projects # <<>> THEN sl.projects[1] ELSE "None"
                    ELSE IF \E i \in DOMAIN sl.projects : sl.projects[i].name = project_name
                    THEN sl.projects[CHOOSE i \in DOMAIN sl.projects :
                                        sl.projects[i].name = project_name]
                    ELSE "None"
         IN  sl' = [sl EXCEPT !.log = Append(@, <<call, out>>)]
    /\ UNCHANGED <<agentVars, stpc, gh, ph, graphVars, bridgeVars>>

NextSlack ==
    \/ AddProject
    \/ GetProject

SpecSlack == Init /\ [][NextSlack]_vars

\* ---------------------------------------------- GitHubIntegration's calls
\* One merge_pull_request call from entry to return.
MergeCall ==
    /\ gh.calls < MaxMergeCalls
    /\ \E in \in MergeInputs :
         gh' = [calls |-> gh.calls + 1, in |-> in, out |-> MergePullRequest(in)]
    /\ UNCHANGED <<agentVars, stpc, ph, sl, graphVars, bridgeVars>>

NextGithub == MergeCall

SpecGithub == Init /\ [][NextGithub]_vars

\* -------------------------------------------------- start() step by step
\* start() called by the thread c: the test of self.running.
StartTest(c, max_workers) ==
    /\ stpc[c] = "idle"
    /\ spawned + MaxCallers * max_workers <= Cardinality(Threads)
    /\ stpc' = [stpc EXCEPT ![c] = IF running THEN "idle" ELSE "set"]
    /\ UNCHANGED <<taskVars, queueVars, task_lock, poolVars, workerVars,
                   branch_files, repo, addVars, sweepVars, mainVars, otherVars>>

\* self.running = True.
StartSet(c) ==
    /\ stpc[c] = "set"
    /\ running' = TRUE
    /\ stpc' = [stpc EXCEPT ![c] = "spawn"]
    /\ UNCHANGED <<taskVars, queueVars, task_lock, workers, spawned, workerVars,
                   branch_files, repo, addVars, sweepVars, mainVars, otherVars>>

\* The loop that creates, starts and records max_workers threads.
StartSpawn(c, max_workers) ==
    /\ stpc[c] = "spawn"
    /\ spawned' = spawned + max_workers
    /\ workers' = workers \cup ((spawned + 1)..(spawned + max_workers))
    /\ wpc' = [t \in Threads |->
                 IF t \in (spawned + 1)..(spawned + max_workers)
                 THEN "loop" ELSE wpc[t]]
    /\ stpc' = [stpc EXCEPT ![c] = "idle"]
    /\ UNCHANGED <<taskVars, queueVars, task_lock, running, wtask, wout, wenv,
                   branch_files, repo, addVars, sweepVars, mainVars, otherVars>>

\* start() called from several threads at once (the statements of one call
\* interleave with those of another), with the workers running and tasks
\* being added.
NextStart ==
    \/ \E c \in Callers : StartTest(c, MaxWorkers)
    \/ \E c \in Callers : StartSet(c)
    \/ \E c \in Callers : StartSpawn(c, MaxWorkers)
    \/ AddTask({Len(objs) + 1} \cap Ids, {"medium"}, {<<>>}, MaxTasks) /\ UNCHANGED outerVars
    \/ AddTaskCheck /\ UNCHANGED outerVars
    \/ AddTaskPut(MaxQueue) /\ UNCHANGED outerVars
    \/ \E w \in Threads : WLoop(w) /\ UNCHANGED outerVars
    \/ \E w \in Threads : WGet(w) /\ UNCHANGED outerVars
    \/ \E w \in Threads : WBegin(w) /\ UNCHANGED outerVars
    \/ \E w \in Threads : WProcess(w, EnvsOk) /\ UNCHANGED outerVars
    \/ \E w \in Threads : WStore(w) /\ UNCHANGED outerVars

SpecStart == Init /\ [][NextStart]_vars

\* ------------------------------------------ main.py: the Corrective-RAG bot
\* The module-level objects of main.py: workflow is the StateGraph builder
\* (line 220); app is the graph compiled from it, with the recursion limit
\* (lines 254-255). Only a compiled graph has invoke and ainvoke.
workflow == "StateGraph"
Methods(obj) ==
    IF obj = "CompiledStateGraph"
    THEN {"invoke", "ainvoke", "with_config"}
    ELSE {"add_node", "add_edge", "add_conditional_edges", "compile"}

\* A question, by what the compiled graph does with it: every retrieved
\* document is graded "no" on every pass (the run ends at the recursion
\* limit), or the graph ends at END with a generation after retrieve,
\* grade_documents and generate.
Questions ==
    {[grading |-> "all no",
      graph |-> [raised |-> "GraphRecursionError", generation |-> "", steps |-> RecursionLimit]],
     [grading |-> "some yes",
      graph |-> [raised |-> "None", generation |-> "answer 1", steps |-> 3]],
     [grading |-> "some yes",
      graph |-> [raised |-> "None", generation |-> "answer 2", steps |-> 3]]}

\* The event of an app_mention: the thread_ts key is absent (0) outside a
\* thread.
MentionEvents == [channel : {"C1", "C2"}, ts : {1, 2}, thread_ts : {0, 1}]

\* event.get("thread_ts", event["ts"]).
ThreadTs(event) == IF event.thread_ts = 0 THEN event.ts ELSE event.thread_ts

\* run_workflow: awaits workflow.ainvoke(inputs) and returns
\* value["generation"], a str; log_errors re-raises what is raised.
RunWorkflow(inputs) ==
    IF "ainvoke" \in Methods(workflow)
    THEN [raised |-> inputs.graph.raised, steps |-> inputs.graph.steps,
          value |-> [type |-> "str", text |-> inputs.graph.generation]]
    ELSE [raised |-> "AttributeError", steps |-> 0,
          value |-> [type |-> "None", text |-> ""]]

\* handle_app_mention_events from entry to return: the thread history is
\* read, the workflow is run, result["generation"] is posted; any exception
\* of the try block posts the fixed apology instead. result is what
\* run_workflow returned, a str, and a str subscripted by a str raises
\* TypeError.
HandleAppMentionEvents ==
    /\ Len(rag) < MaxMentions
    /\ \E event \in MentionEvents, question \in Questions :
         LET channel_id == event.channel
             thread_ts == ThreadTs(event)
             result == RunWorkflow(question)
             exc == IF result.raised # "None" THEN result.raised
                    ELSE IF result.value.type # "dict" THEN "TypeError"
                    ELSE "None"
             text == IF exc = "None" THEN result.value.text ELSE "apology"
         IN  rag' = Append(rag,
                      [event |-> event, question |-> question, exc |-> exc,
                       raised |-> result.raised, steps |-> result.steps,
                       posts |-> <<[channel |-> channel_id, thread_ts |-> thread_ts,
                                    text |-> text]>>])
    /\ UNCHANGED <<agentVars, stpc, gh, ph, sl, wf, li, bridgeVars>>

NextRag == HandleAppMentionEvents

SpecRag == Init /\ [][NextRag]_vars

\* ------------------------------- LangGraphWorkflow: the tool-using graph
\* What self.llm.ainvoke gives the assistant node: it raises, or it returns
\* a response whose tool_calls names tools of all_tools (none, one, two).
LlmResponses ==
    [raised : {FALSE}, tool_calls : {<<>>, <<"search_ddg">>, <<"search_ddg", "fetch_page">>}]
       \cup {[raised |-> TRUE, tool_calls |-> <<>>]}


\* _route_assistant_output, as the node its answer ("error", "tool",
\* "end") stands for in the edge map of _build_workflow.
RouteAssistantOutput(state) ==
    IF state.error # "None" THEN "error_handler"
    ELSE IF ~state.tools_output.none /\ state.tools_output.invocations # <<>>
    THEN "tool_execution"
    ELSE "END"

\* _route_tool_output, likewise ("error", "assistant").
RouteToolOutput(state) ==
    IF state.error # "None" THEN "error_handler" ELSE "assistant_agent"

\* process_message / execute_task: the initial AgentState, and the entry
\* point of the graph.
ProcessMessage ==
    /\ wf.pc = "idle"
    /\ \E messages \in {<<"human">>, <<"system: execute task", "human">>} :
         wf' = [pc |-> "user_agent", last |-> "START", response |-> <<>>,
                messages |-> messages,
                sender |-> IF Len(messages) = 1 THEN "user" ELSE "system",
                error |-> "None", tools_output |-> IdleWorkflow.tools_output,
                executed |-> <<>>, steps |-> 0]
    /\ UNCHANGED <<agentVars, stpc, gh, ph, sl, rag, li, bridgeVars>>

\* _user_agent_node: the last message is the HumanMessage; a note that it
\* was processed is appended. The edge goes to assistant_agent.
UserAgentNode ==
    /\ wf.pc = "user_agent"
    /\ wf' = [wf EXCEPT !.pc = "assistant_agent", !.last = "user_agent",
                        !.messages = Append(@, "system: processed"),
                        !.sender = "system", !.steps = @ + 1]
    /\ UNCHANGED <<agentVars, stpc, gh, ph, sl, rag, li, bridgeVars>>

\* _assistant_agent_node, then its conditional edge. A response with tool
\* calls stores them as the pending invocations; a response without tool
\* calls only appends the message and leaves tools_output as it is.
AssistantAgentNode ==
    /\ wf.pc = "assistant_agent"
    /\ wf.steps < MaxGraphSteps
    /\ \E response \in LlmResponses :
         LET state == IF response.raised
                      THEN [wf EXCEPT !.error = "llm error", !.sender = "system"]
                      ELSE IF response.tool_calls # <<>>
                      THEN [wf EXCEPT !.messages = Append(@, "ai"),
                                      !.tools_output = [none |-> FALSE,
                                                        invocations |-> response.tool_calls,
                                                        results |-> <<>>],
                                      !.sender = "tool"]
                      ELSE [wf EXCEPT !.messages = Append(@, "ai"),
                                      !.sender = "assistant"]
         IN  wf' = [state EXCEPT !.pc = RouteAssistantOutput(state),
                                 !.last = "assistant_agent",
                                 !.response = response.tool_calls, !.steps = @ + 1]
    /\ UNCHANGED <<agentVars, stpc, gh, ph, sl, rag, li, bridgeVars>>

\* _tool_execution_node, then its conditional edge: every pending
\* invocation is executed and its result appended as a message, or the
\* executor raises and the error is set.
ToolExecutionNode ==
    /\ wf.pc = "tool_execution"
    /\ wf.steps < MaxGraphSteps
    /\ \E outcome \in {"ok", "raise"} :
         LET tool_invocations == wf.tools_output.invocations
             state == IF outcome = "raise" \/ wf.tools_output.none
                      THEN [wf EXCEPT !.error = "tool error", !.sender = "system"]
                      ELSE [wf EXCEPT !.tools_output.results = tool_invocations,
                                      !.messages = @ \o [i \in 1..Len(tool_invocations) |->
                                                           "system: tool result"],
                                      !.executed = Append(@, tool_invocations),
                                      !.sender = "assistant"]
         IN  wf' = [state EXCEPT !.pc = RouteToolOutput(state),
                                 !.last = "tool_execution", !.steps = @ + 1]
    /\ UNCHANGED <<agentVars, stpc, gh, ph, sl, rag, li, bridgeVars>>

\* _error_handler_node: reports and clears the error. The edge goes to
\* assistant_agent.
ErrorHandlerNode ==
    /\ wf.pc = "error_handler"
    /\ wf.steps < MaxGraphSteps
    /\ wf' = [wf EXCEPT !.pc = "assistant_agent", !.last = "error_handler",
                        !.messages = Append(@, "system: error"),
                        !.error = "None", !.sender = "assistant",
                        !.steps = @ + 1]
    /\ UNCHANGED <<agentVars, stpc, gh, ph, sl, rag, li, bridgeVars>>

NextWorkflow ==
    \/ ProcessMessage
    \/ UserAgentNode
    \/ AssistantAgentNode
    \/ ToolExecutionNode
    \/ ErrorHandlerNode

SpecWorkflow == Init /\ [][NextWorkflow]_vars

\* ------------------------- agent_graph.py and LangGraphSlackInterface
\* handle_app_mention of the interface, with _process_message and the
\* graph run it awaits, from entry to return. The posts are what
\* _send_slack_message sent to the thread.
LiHandleAppMention ==
    /\ Len(li.log) < MaxMentions
    /\ \E event \in MentionEvents, text \in {"t1", "t2"}, analysis \in Analyses,
          llm \in {"ok", "raise"} :
         LET channel_id == event.channel
             thread_ts == ThreadTs(event)
             conversation_id == <<channel_id, thread_ts>>
             stored == li.conversations[conversation_id]
             \* lines 69-87: get or create, append the user's message
             conversation == [stored EXCEPT !.present = TRUE,
                                !.messages = Append(@, [role |-> "user", content |-> text])]
             \* the graph: analyze_request, the routed node, format_response
             node == RouteTask(analysis)
             routed == IF node = "human_intervention"
                       THEN [conversation EXCEPT !.status = "needs_human",
                               !.messages = Append(@, [role |-> "assistant",
                                                       content |-> "human notice"])]
                       ELSE [conversation EXCEPT !.status = COMPLETED,
                               !.results = Append(@, [task_type |-> node, of |-> text])]
             result == IF routed.results # <<>>
                       THEN [routed EXCEPT !.messages =
                               Append(@, [role |-> "assistant",
                                          content |-> routed.results[Len(routed.results)].of])]
                       ELSE [routed EXCEPT !.messages =
                               Append(@, [role |-> "assistant", content |-> "no results"])]
             post(t) == [channel |-> channel_id, thread_ts |-> thread_ts, text |-> t]
             entry(route, status, posts) ==
                 [event |-> event, text |-> text, analysis |-> analysis, llm |-> llm,
                  route |-> route, status |-> status, posts |-> posts]
         IN  IF ~li.made
             THEN \* self.conversations raises AttributeError (line 69)
                  li' = [li EXCEPT !.log = Append(@,
                           entry("none", "none", <<post("error: AttributeError")>>))]
             ELSE IF llm = "raise"
             THEN li' = [li EXCEPT
                           !.conversations[conversation_id] =
                               [conversation EXCEPT !.errors = Append(@, "llm error")],
                           !.log = Append(@, entry("none", conversation.status,
                                     <<post("Thinking..."), post("error: llm error")>>))]
             ELSE li' = [li EXCEPT
                           !.conversations[conversation_id] = result,
                           !.log = Append(@, entry(node, result.status,
                                     <<post("Thinking..."),
                                       post(result.messages[Len(result.messages)].content)>>))]
    /\ UNCHANGED <<agentVars, stpc, gh, ph, sl, rag, wf, bridgeVars>>

NextInterface == LiHandleAppMention

SpecInterface == Init /\ [][NextInterface]_vars

\* ------------------------------------------------ the regex chat bridges
\* A mention's text is the list of its words. A pattern \b(v1|v2)\s+(n1|n2)\b
\* is the list of its word sets, and re.search finds it when consecutive
\* words of the text are drawn from the consecutive sets.
Search(pattern, text) ==
    \E i \in 1..(Len(text) - Len(pattern) + 1) :
       \A j \in 1..Len(pattern) : text[i + j - 1] \in pattern[j]

Texts ==
    {<<"hello">>,
     <<"init", "project">>,
     <<"create", "project", "a">>,
     <<"add", "feature", "login">>,
     <<"add", "feature">>,
     <<"status", "of", "task", "t1">>,
     <<"check", "project", "status", "of", "task", "t1">>,
     <<"run", "the", "implementation", "phases">>,
     <<"start", "project", "run", "implementation", "phases">>,
     <<"add", "project", "a", "repo", "owner/repo">>,
     <<"deploy", "now">>,
     <<"deploy", "status", "of", "task">>}

\* The mentions of the bridges: one at the top of channel C1, one inside a
\* thread of channel C2.
BridgeEvents == {e \in MentionEvents : e.ts = 2 /\ (e.channel = "C1") = (e.thread_ts = 0)}

\* The built-in routes of handle_app_mention in the order of its tests; a
\* pattern with an optional word is the set of its two spellings.
BaseRoutes ==
    <<[name |-> "initialization",
       patterns |-> {<<{"initialize", "init", "start", "create"}, {"project"}>>}],
      [name |-> "task_request",
       patterns |-> {<<{"implement", "add", "create", "develop"},
                       {"feature", "task", "component"}>>}],
      [name |-> "state_analysis",
       patterns |-> {<<{"analyze", "check", "compare", "status"}, {"project", "state"}>>}],
      [name |-> "task_status",
       patterns |-> {<<{"status", "progress"}, {"of", "for"}, {"task"}>>}]>>

\* The routes of the custom handlers, in the order of the dict
\* message_handlers.
CustomRoutes(message_handlers) ==
    [i \in DOMAIN message_handlers |->
       [name |-> message_handlers[i].handler,
        patterns |-> {<<{message_handlers[i].pattern}>>}]]

\* The tests taken in the opposite order: the last matching route wins.
FirstMatchLast(routes, text) ==
    LET hits == {i \in DOMAIN routes : \E p \in routes[i].patterns : Search(p, text)}
    IN  IF hits = {} THEN 0 ELSE CHOOSE i \in hits : \A j \in hits : i >= j

\* The index of the first route whose pattern is found in the text, 0 when
\* there is none.
FirstMatch(routes, text) ==
    LET hits == {i \in DOMAIN routes : \E p \in routes[i].patterns : Search(p, text)}
    IN  IF hits = {} THEN 0 ELSE CHOOSE i \in hits : \A j \in hits : i <= j

\* The calls of a handler, in order: agent operations and messages handed
\* to _send_slack_message; outer marks the message of handle_app_mention's
\* own except branch.
Op(what) == [call |-> "op", what |-> what, detail |-> "", outer |-> FALSE]
Say(what, detail) == [call |-> "post", what |-> what, detail |-> detail, outer |-> FALSE]
SayApology(detail) == [call |-> "post", what |-> "error", detail |-> "apology", outer |-> TRUE]
SayOuter(detail) == [call |-> "post", what |-> "error", detail |-> detail, outer |-> TRUE]

\* What a mention does when the chat provider rejects its messages:
\* _send_slack_message re-raises SlackApiError, so the calls stop at the
\* first message; unless that message is already the one of
\* handle_app_mention's except branch, the except branch tries to post the
\* error, and that SlackApiError leaves handle_app_mention.
Rejected(calls) ==
    LET posts == {i \in DOMAIN calls : calls[i].call = "post"}
        first == CHOOSE i \in posts : \A j \in posts : i <= j
    IN  IF posts = {} THEN calls
        ELSE IF calls[first].outer THEN SubSeq(calls, 1, first)
        ELSE Append(SubSeq(calls, 1, first), SayOuter("SlackApiError"))

\* register_message_handler: message_handlers[pattern] = handler; each
\* pattern is registered with a handler of its own.
RegisterMessageHandler ==
    /\ \E pattern \in {"deploy", "now"} :
         LET handler == IF pattern = "deploy" THEN "h1" ELSE "h2"
             known == {i \in DOMAIN sb.message_handlers :
                         sb.message_handlers[i].pattern = pattern}
             item == [pattern |-> pattern, handler |-> handler]
         IN  sb' = [sb EXCEPT !.message_handlers =
                       IF known = {} THEN Append(@, item)
                       ELSE [i \in DOMAIN @ |-> IF i \in known THEN item ELSE @[i]]]
    /\ UNCHANGED <<agentVars, stpc, gh, ph, sl, graphVars, ml>>

\* The single-project bridge's handlers. outcome is what the agent
\* operation of the route gives: a value, an empty value, or an exception
\* whose text is "boom". A status request that names no task asks for all
\* tasks.
SbHandler(name, text, outcome) ==
    IF name = "initialization"
    THEN <<Say("progress", "initializing"), Op("initialize_project"),
           IF outcome = "raise" THEN Say("error", "boom")
           ELSE IF outcome = "empty" THEN Say("reply", "no requirement documents")
           ELSE Say("reply", "implementation plan")>>
    ELSE IF name = "task_request"
    THEN <<Say("progress", "processing task request"), Op("formulate_assistant_request")>>
           \o (IF outcome = "raise" THEN <<Say("error", "boom")>>
               ELSE <<Op("add_task"), Say("reply", "task added")>>)
    ELSE IF name = "state_analysis"
    THEN <<Say("progress", "analyzing"), Op("compare_project_state")>>
           \o (IF outcome = "raise" THEN <<Say("error", "boom")>>
               ELSE IF outcome = "empty" THEN <<Say("reply", "analysis failed")>>
               ELSE <<Say("reply", "analysis"), Op("formulate_further_requests"),
                      Say("reply", "further requests")>>)
    ELSE IF name = "task_status"
    THEN <<IF \E i \in 1..(Len(text) - 1) : text[i] = "task"
           THEN Op("get_task_status") ELSE Op("get_all_tasks"),
           IF outcome = "raise" THEN SayOuter("boom")
           ELSE IF outcome = "empty" THEN Say("reply", "task not found")
           ELSE Say("reply", "task status")>>
    ELSE IF name = "help"
    THEN <<Say("help", "four capabilities")>>
    ELSE IF outcome = "raise" THEN <<SayOuter("boom")>> ELSE <<>>

\* One mention, as the bridge's log keeps it: the handlers invoked, the
\* agent operations called, the messages handed to chat_postMessage with
\* the thread they go to, and the exception that leaves handle_app_mention.
Mention(event, text, outcome, slack, handlers, calls) ==
    LET done == IF slack = "ok" THEN calls ELSE Rejected(calls)
        ops == SelectSeq(done, LAMBDA c : c.call = "op")
        posts == SelectSeq(done, LAMBDA c : c.call = "post")
    IN  [event |-> event, text |-> text, outcome |-> outcome, slack |-> slack,
         handlers |-> handlers,
         ops |-> [i \in DOMAIN ops |-> ops[i].what],
         posts |-> [i \in DOMAIN posts |->
                      [channel |-> event.channel, thread_ts |-> ThreadTs(event),
                       what |-> posts[i].what, detail |-> posts[i].detail,
                       delivered |-> slack = "ok"]],
         raised |-> IF slack # "ok" /\ posts # <<>> THEN "SlackApiError" ELSE "None"]

\* SlackIntegration.handle_app_mention of the single-project bridge.
SbHandleAppMention ==
    /\ Len(sb.log) + Len(ml) < MaxMentions
    /\ \E event \in BridgeEvents, text \in Texts, outcome \in {"ok", "empty", "raise"},
          slack \in {"ok", "SlackApiError"} :
         LET base == FirstMatch(BaseRoutes, text)
             routes == CustomRoutes(sb.message_handlers)
             custom == FirstMatch(routes, text)
             name == IF base # 0 THEN BaseRoutes[base].name
                     ELSE IF custom # 0 THEN routes[custom].name
                     ELSE "help"
             handlers == IF name = "help" THEN <<>> ELSE <<name>>
         IN  sb' = [sb EXCEPT !.log =
                       Append(@, Mention(event, text, outcome, slack, handlers,
                                         SbHandler(name, text, outcome)))]
    /\ UNCHANGED <<agentVars, stpc, gh, ph, sl, graphVars, ml>>

\* ------------------------------------------------ the multi-project bridge
\* The built-in routes of the multi-project bridge's handle_app_mention in
\* the order of its tests.
MultiRoutes ==
    <<[name |-> "project_management",
       patterns |-> {<<{"add", "create", "register"}, {"project"}>>}]>>
    \o BaseRoutes
    \o <<[name |-> "implementation_phases",
          patterns |-> {<<{"proceed", "execute", "run", "start"},
                          {"implementation"}, {"phases"}>>,
                        <<{"proceed", "execute", "run", "start"}, {"with", "the"},
                          {"implementation"}, {"phases"}>>}]>>

\* The word that follows the first of the given key words, "" when there is
\* none: the group 2 of \b(project|name)[:\s]+([a-zA-Z0-9_-]+).
Argument(keys, text) ==
    LET at == {i \in 1..(Len(text) - 1) : text[i] \in keys}
    IN  IF at = {} THEN "" ELSE text[(CHOOSE i \in at : \A j \in at : i <= j) + 1]

\* get_project on a dict of projects: the first one for an omitted name.
Resolves(projects, project_name) ==
    IF project_name = "" THEN projects # <<>>
    ELSE \E i \in DOMAIN projects : projects[i].name = project_name

\* The multi-project bridge's handlers. projects is self.projects, which
\* no code assigns: add_project and get_project raise AttributeError, and
\* so does the loop over self.message_handlers that precedes the help
\* message.
MlHandler(name, text, outcome, projects) ==
    LET project_name == Argument({"project", "name"}, text)
        work == IF name = "initialization" THEN "initialize_project"
                ELSE IF name = "state_analysis" THEN "compare_project_state"
                ELSE IF name = "task_request" THEN "add_task"
                ELSE "execute_all_phases"
    IN  IF name = "project_management"
        THEN IF project_name = "" \/ Argument({"repo", "repository", "url"}, text) = ""
             THEN <<Say("reply", "usage")>>
             ELSE IF projects = "no attribute" THEN <<SayOuter("AttributeError")>>
             ELSE <<Say("reply", "project added")>>
        ELSE IF name = "task_status"
        THEN IF ~Search(<<{"status", "progress"}, {"of", "for"}, {"task"}, {"t1", "t2"}>>, text)
             THEN <<Say("reply", "usage")>>
             ELSE <<Op("get_task_status"),
                    IF outcome = "raise" THEN SayOuter("boom")
                    ELSE IF outcome = "empty" THEN Say("reply", "task not found")
                    ELSE Say("reply", "task status")>>
        ELSE IF name \in {"help", "custom"}
        THEN <<SayOuter("AttributeError")>>
        ELSE IF name = "task_request" /\ Argument({"feature", "task", "component"}, text) = ""
        THEN <<Say("reply", "usage")>>
        ELSE IF projects = "no attribute" THEN <<SayOuter("AttributeError")>>
        ELSE IF ~Resolves(projects, project_name) THEN <<Say("not found", project_name)>>
        ELSE <<Say("progress", name)>>
               \o (IF name = "task_request" THEN <<>> ELSE <<Op("set_repository")>>)
               \o <<Op(work),
                    IF outcome = "raise" THEN Say("error", "boom") ELSE Say("reply", name)>>

\* SlackIntegration.handle_app_mention of the multi-project bridge.
MlHandleAppMention ==
    /\ Len(sb.log) + Len(ml) < MaxMentions
    /\ \E event \in BridgeEvents, text \in Texts, outcome \in {"ok", "empty", "raise"},
          slack \in {"ok", "SlackApiError"} :
         LET first == FirstMatch(MultiRoutes, text)
             name == IF first # 0 THEN MultiRoutes[first].name ELSE "help"
             handlers == IF name = "help" THEN <<>> ELSE <<name>>
             calls == MlHandler(name, text, outcome, sl.projects)
             added == name = "project_management" /\ calls = <<Say("reply", "project added")>>
             project == [name |-> Argument({"project", "name"}, text),
                         repo_name |-> <<"owner", "repo">>]
         IN  /\ ml' = Append(ml, Mention(event, text, outcome, slack, handlers, calls))
             /\ sl' = IF ~added THEN sl
                      ELSE IF \E i \in DOMAIN sl.projects : sl.projects[i].name = project.name
                      THEN [sl EXCEPT !.projects =
                               [i \in DOMAIN @ |-> IF @[i].name = project.name
                                                   THEN project ELSE @[i]]]
                      ELSE [sl EXCEPT !.projects = Append(@, project)]
    /\ UNCHANGED <<agentVars, stpc, gh, ph, graphVars, sb>>

NextBridge ==
    \/ RegisterMessageHandler
    \/ SbHandleAppMention
    \/ MlHandleAppMention

SpecBridge == Init /\ [][NextBridge]_vars


\* ------------------------------------------------------------------ claims
\* The worker w takes a Task off the queue in this step.
Dequeues(w) == wpc[w] = "get" /\ wpc'[w] = "got"

\* C1: whenever a worker removes a task from the ready queue, no task still
\* in the queue at that moment has a strictly higher priority.
C1_PriorityOrder ==
    [][\A w \in Threads :
         Dequeues(w) =>
            \A i \in 1..Len(task_queue') :
               task_queue'[i] # NoneItem =>
                  objs[task_queue'[i]].priority <= objs[wtask'[w]].priority]_vars

\* How many times x occurs in the queue q.
Count(q, x) == Cardinality({i \in 1..Len(q) : q[i] = x})

\* C2: tasks of equal priority that are in the queue together are dequeued
\* in the order they were put (under SpecQueue every Task is put once, by
\* add_task, in creation order): a dequeued Task leaves no older Task of
\* its priority behind.
C2_FifoAmongEqual ==
    [][\A w \in Threads :
         Dequeues(w) =>
            \A i \in 1..Len(task_queue') :
               (/\ task_queue'[i] # NoneItem
                /\ objs[task_queue'[i]].priority = objs[wtask'[w]].priority)
               => task_queue'[i] > wtask'[w]]_vars

\* Every listed dependency of Task t is registered and COMPLETED.
DepsCompleted(t) ==
    \A i \in 1..Len(objs[t].dependencies) :
        /\ tasks[objs[t].dependencies[i]] # 0
        /\ objs[tasks[objs[t].dependencies[i]]].status = COMPLETED

\* C3: every task waiting in the ready queue, and every task a worker is
\* about to set IN_PROGRESS, has all its dependencies COMPLETED.
C3_QueuedDepsCompleted ==
    /\ \A i \in 1..Len(task_queue) :
          task_queue[i] # NoneItem => DepsCompleted(task_queue[i])
    /\ \A w \in Threads : wpc[w] = "got" => DepsCompleted(wtask[w])

C5_StatusLifecycle ==
    [][\A t \in 1..Len(objs) :
         objs'[t].status # objs[t].status =>
            \/ objs[t].status = PENDING /\ objs'[t].status = IN_PROGRESS
            \/ objs[t].status = IN_PROGRESS /\ objs'[t].status \in {COMPLETED, FAILED}]_vars

\* C6: no operation puts a Task whose status is COMPLETED or FAILED on the
\* ready queue.
C6_NoRequeueAfterTerminal ==
    [][\A t \in 1..Len(objs) :
         Count(task_queue', t) > Count(task_queue, t) =>
            objs[t].status \notin {COMPLETED, FAILED}]_vars

\* The threads that exist and have not ended.
Live == {t \in Threads : wpc[t] \notin {"unborn", "exited"}}

\* C7: a worker whose task processing raised records FAILED and the
\* exception text on the Task, goes back to its loop, and no worker ends.
C7_FailureContained ==
    [][\A w \in Threads :
         (wpc[w] = "store" /\ wout[w].kind = "exc" /\ wpc'[w] # "store") =>
            /\ objs'[wtask[w]].status = FAILED
            /\ objs'[wtask[w]].error = wout[w].error
            /\ objs'[wtask[w]].error # NoError
            /\ wpc'[w] = "loop"
            /\ Live \subseteq {t \in Threads : wpc'[t] \notin {"unborn", "exited"}}]_vars

\* C7 witness: a Task is FAILED with its error text, every worker is
\* alive, and a worker is processing another Task.
C7_Witness ==
    \E t \in 1..Len(objs), w \in Threads :
        /\ objs[t].status = FAILED
        /\ objs[t].error = ErrText("llm")
        /\ wpc[w] = "proc"
        /\ wtask[w] # t
        /\ Live = workers
        /\ workers # {}

\* The worker w leaves the locked block that records its run's outcome.
Stores(w) == wpc[w] = "store" /\ wpc'[w] # "store"

\* A repository call made for the files entry e raises.
EntryThrows(e) ==
    e.path # 0 /\ e.content /\ e.action \in {"create", "modify"} /\ ~e.api

\* The run reaches the files loop of _implement_feature with a plan of
\* several files, and an entry's call raises after an earlier entry was
\* written to the branch.
ThrowsMidPlan(env) ==
    /\ repo
    /\ DetermineTaskType(env.resp) = "implementation"
    /\ env.fault \in {"none", "pull"}
    /\ \E i, j \in 1..Len(env.plan.files) :
          /\ i < j
          /\ FileApplied(env.plan.files[i]) # <<>>
          /\ EntryThrows(env.plan.files[j])

\* How many files entries of the plan raise.
Throwing(plan) == Cardinality({i \in 1..Len(plan.files) : EntryThrows(plan.files[i])})

\* Every path of the sequence a occurs in the sequence b.
AllIn(a, b) == \A i \in 1..Len(a) : \E j \in 1..Len(b) : b[j] = a[i]

\* C8 as stated: when a file creation raises mid-way through a plan of
\* several files, the task is marked FAILED with the exception text and
\* the worker goes back to its loop.
C8_FileThrowFailsTask ==
    [][\A w \in Threads :
         (Stores(w) /\ ThrowsMidPlan(wenv[w])) =>
            /\ objs'[wtask[w]].status = FAILED
            /\ objs'[wtask[w]].error # NoError
            /\ wpc'[w] = "loop"]_vars

\* C8 amended: the exception is caught inside the loop.  The worker goes
\* back to its loop; the task is FAILED only when the pull-request step
\* raises, with that step's text; otherwise it is COMPLETED without an
\* error, every path written to the branch is in implemented_files, and
\* no entry that raised added a path.
C8_FileThrowContained ==
    [][\A w \in Threads :
         (Stores(w) /\ ThrowsMidPlan(wenv[w])) =>
            LET t == wtask[w]
                plan == wenv[w].plan
            IN  /\ wpc'[w] = "loop"
                /\ wenv[w].fault = "pull" =>
                      /\ objs'[t].status = FAILED
                      /\ objs'[t].error = ErrText("pull")
                /\ wenv[w].fault = "none" =>
                      /\ objs'[t].status = COMPLETED
                      /\ objs'[t].error = NoError
                      /\ branch_files[t] # <<>>
                      /\ AllIn(branch_files[t], objs'[t].result.implemented_files)
                      /\ Len(objs'[t].result.implemented_files) + Throwing(plan)
                            <= Len(plan.files) + Len(plan.tests)]_vars

\* C8 witness: a worker is about to record a run in which the first file
\* was created, the second creation raised and the pull request was
\* opened; only the first path is reported, and another task is waiting.
C8_Witness ==
    \E w \in Threads :
        /\ wpc[w] = "store"
        /\ ThrowsMidPlan(wenv[w])
        /\ wenv[w].fault = "none"
        /\ Len(wenv[w].plan.files) = 2
        /\ wenv[w].plan.files[1].path # wenv[w].plan.files[2].path
        /\ wout[w].kind = "ok"
        /\ wout[w].result.implemented_files = <<wenv[w].plan.files[1].path>>
        /\ task_queue # <<>>

\* C9: a task whose implementation run returned is COMPLETED and its
\* implemented_files are exactly the paths whose create or update
\* succeeded, in plan order.
C9_ImplementedFilesExact ==
    [][\A w \in Threads :
         (/\ Stores(w)
          /\ wout[w].kind = "ok"
          /\ wout[w].result.task_type = "implementation") =>
            /\ objs'[wtask[w]].status = COMPLETED
            /\ objs'[wtask[w]].result.implemented_files = branch_files[wtask[w]]]_vars

\* add_task's dependency test reads self.tasks and a Task's status.
ClientReads == apc = "check" /\ apc' # "check" /\ objs[atask].dependencies # <<>>

\* C10: every access to the task map or a Task field is made by the
\* thread holding task_lock, so none is made while check_dependencies
\* holds the lock in the middle of its pass.
C10_AccessUnderLock ==
    [][ClientReads => task_lock # Sweeper]_vars

\* C11: once no start() call is in progress, a running agent has exactly
\* max_workers workers, and at no time are there more than max_workers,
\* recorded in self.workers or alive.
C11_WorkerCount ==
    /\ Cardinality(workers) <= MaxWorkers
    /\ Cardinality(Live) <= MaxWorkers
    /\ (running /\ \A c \in Callers : stpc[c] = "idle") =>
          Cardinality(workers) = MaxWorkers

\* C12: a stop() call leaves its sentinel loop only by having put one
\* sentinel for every worker, i.e. no put(None) raises, and it leaves the
\* agent not running.
C12_StopCompletes ==
    [][(mpc = "sentinels" /\ mpc' = "idle") =>
          (mcount = SeqWorkers /\ ~running')]_vars

\* C13: whatever the classifier answered, a task that was processed ran the
\* pipeline of one of the four known types: the type the answer spells once
\* its surrounding white space is removed and its letters are lower-cased,
\* and "generic" for every other answer; only the implementation pipeline
\* touches the repository and only the other three call the generic model.
C13_Normal(resp) == Lower(Strip(resp))
C13_Classification ==
    \A w \in Threads :
        (wpc[w] = "store" /\ wenv[w].fault # "classify") =>
            LET n == C13_Normal(wenv[w].resp)
                expected == IF n \in KnownTypes THEN n ELSE "generic"
                out == wout[w]
            IN  /\ out.kind = "ok" =>
                      /\ out.result.task_type \in KnownTypes
                      /\ out.result.task_type = expected
                      /\ out.result.pull_request <=> (expected = "implementation")
                /\ out.kind = "exc" =>
                      /\ out.error = ErrNoRepo => expected = "implementation"
                      /\ out.error = ErrText("llm") => expected # "implementation"
C13_Witness ==
    \E w \in Threads :
        /\ wpc[w] = "store"
        /\ wenv[w].resp = " Implementation\n"
        /\ wout[w].kind = "ok"
        /\ wout[w].result.task_type = "implementation"

\* C14: a merge_pull_request call on a pull request that the provider does
\* not report as mergeable returns False without invoking the provider's
\* merge; merge is invoked only when the provider reports mergeable, and when
\* that merge returns, the call returns its merged flag.
C14_MergeOnlyMergeable ==
    gh.calls > 0 =>
        /\ gh.in.mergeable # "True" => (gh.out.invoked = 0 /\ gh.out.ret = FALSE)
        /\ gh.out.invoked > 0 => gh.in.mergeable = "True"
        /\ (gh.out.invoked > 0 /\ gh.in.mergeOk) =>
              (gh.out.invoked = 1 /\ gh.out.ret = gh.in.merged)
C14_Witness ==
    /\ gh.calls > 0
    /\ gh.in.found /\ gh.in.pull /\ gh.in.mergeable = "False"
    /\ gh.in.mergeOk /\ gh.in.merged
    /\ gh.out.ret = FALSE

\* C15: a phase-3 report gives as total_tasks the number of keys of the
\* task map at the time of its snapshot, its four status counts are the
\* numbers of registered tasks with that status and add up to total_tasks,
\* and its completion_percentage is 100 * completed / total_tasks, and 0
\* when there is no task.
C15_Registered(status) ==
    Cardinality({k \in Keys : tasks[k] # 0 /\ objs[tasks[k]].status = status})
C15_Counts(r) ==
    /\ r.total_tasks = Cardinality({k \in Keys : tasks[k] # 0})
    /\ r.completed_tasks = C15_Registered(COMPLETED)
    /\ r.failed_tasks = C15_Registered(FAILED)
    /\ r.pending_tasks = C15_Registered(PENDING)
    /\ r.in_progress_tasks = C15_Registered(IN_PROGRESS)
    /\ r.completed_tasks + r.failed_tasks + r.pending_tasks + r.in_progress_tasks
         = r.total_tasks
    /\ r.total_tasks = 0 => r.completion_percentage = FloatZero
C15_ReportMetrics ==
    [][ph' # ph =>
         LET r == ph'.report
         IN  /\ C15_Counts(r)
             /\ r.total_tasks > 0 =>
                   r.completion_percentage
                     = FloatDiv(100 * r.completed_tasks, r.total_tasks)]_vars

\* C15, amended: the same, except that completion_percentage is the float
\* completed / total_tasks * 100, rounded twice: it is 100 * completed /
\* total_tasks or one of the two floats next to it, and it is exactly
\* 100 * completed / total_tasks whenever completed / total_tasks is a
\* binary fraction (2 of 4 gives exactly 50).
C15_Adjacent(a, b) ==
    /\ a.e = b.e
    /\ IncBits(a.m) = b.m \/ IncBits(b.m) = a.m
C15_BinaryFraction(k, n) == \E d \in {1, 2, 4, 8, 16} : (k * d) % n = 0
C15_ReportMetricsRounded ==
    [][ph' # ph =>
         LET r == ph'.report
             exact == FloatDiv(100 * r.completed_tasks, r.total_tasks)
         IN  /\ C15_Counts(r)
             /\ r.total_tasks > 0 =>
                   /\ r.completion_percentage = exact
                        \/ C15_Adjacent(r.completion_percentage, exact)
                   /\ C15_BinaryFraction(r.completed_tasks, r.total_tasks) =>
                        r.completion_percentage = exact]_vars
C15_Witness ==
    /\ ph.report.total_tasks = 4
    /\ ph.report.completed_tasks = 2
    /\ ph.report.failed_tasks = 1
    /\ ph.report.pending_tasks = 1
    /\ ph.report.completion_percentage = FloatDiv(50, 1)

\* C16: a get_project(name) call made after add_project(name, r) was called
\* with a usable r returns a project whose repository is r when r is written
\* owner/repo and the last two pieces of r when r is a URL; get_project()
\* without a name returns the project registered first, and None when no
\* add_project call has been made.
C16_Expected(r) ==
    IF r[1] \in {"http:", "https:"}
    THEN IF r[Len(r)] = "" THEN <<r[Len(r) - 2], r[Len(r) - 1]>>
         ELSE <<r[Len(r) - 1], r[Len(r)]>>
    ELSE r
C16_Usable(r) == r # <<"http:", "", "">>
C16_ProjectLookup ==
    \A j \in DOMAIN sl.log :
        LET get == sl.log[j][1]
            out == sl.log[j][2]
            adds == {i \in 1..(j - 1) :
                       /\ sl.log[i][1].op = "add_project"
                       /\ C16_Usable(sl.log[i][1].url)}
            named == {i \in adds : sl.log[i][1].name = get.name}
        IN  get.op = "get_project" =>
              /\ (get.name # "" /\ named # {}) =>
                    LET i == CHOOSE i \in named : \A k \in named : k <= i
                    IN  /\ out \notin {"None", "AttributeError"}
                        /\ out.repo_name = C16_Expected(sl.log[i][1].url)
              /\ (get.name = "" /\ adds # {}) =>
                    LET i == CHOOSE i \in adds : \A k \in adds : i <= k
                    IN  /\ out \notin {"None", "AttributeError"}
                        /\ out.name = sl.log[i][1].name
              /\ (get.name = "" /\ adds = {}) => out = "None"

\* C17: in a run of execute_all_phases the position moves through
\* initialization, development, management, analysis and the writing of the
\* results, one after the other: tasks are submitted only after the plan was
\* saved and before the report is written, the report is written only after
\* every task of the plan was submitted, the analysis only after the report,
\* and implementation_phases_results.json only after the report and the
\* analysis.
C17_Rank(pc) ==
    CASE pc = "idle" -> 0 [] pc = "p1" -> 1 [] pc \in {"p2", "p2_wait"} -> 2
      [] pc = "p3" -> 3 [] pc = "p4" -> 4 [] pc = "write" -> 5 [] OTHER -> 6
C17_PhaseOrder ==
    [][LET New(f) == f \in ph'.files /\ f \notin ph.files
       IN  /\ ph'.pc \notin {ph.pc, "raised"} =>
                \/ C17_Rank(ph'.pc) = C17_Rank(ph.pc) + 1
                \/ C17_Rank(ph'.pc) = 2 /\ C17_Rank(ph.pc) = 2
           /\ New(File.plan) => (ph.files = {} /\ objs = <<>>)
           /\ Len(objs') > Len(objs) =>
                (File.plan \in ph.files /\ File.report \notin ph.files)
           /\ New(File.report) =>
                (Len(objs) = Len(ph.plan) /\ File.analysis \notin ph.files)
           /\ New(File.analysis) =>
                (File.report \in ph.files /\ File.results \notin ph.files)
           /\ New(File.results) =>
                {File.report, File.analysis} \subseteq ph.files]_vars
C17_Witness ==
    /\ ph.pc = "done"
    /\ ph.files = {File.plan, File.report, File.analysis, File.results}
    /\ Len(objs) = 2

\* C18: when a call inside a phase raises, execute_all_phases ends with the
\* exception: from then on no phase runs and no file is written, in
\* particular not implementation_phases_results.json; the files written
\* before stay, and the tasks added before stay registered.
C18_RaiseEndsRun ==
    [][/\ (ph'.exc /\ ~ph.exc) =>
            /\ ph'.pc = "raised"
            /\ ph'.files = ph.files
            /\ tasks' = tasks /\ objs' = objs
       /\ ph.exc =>
            /\ ph'.pc = "raised"
            /\ ph'.files = ph.files
            /\ File.results \notin ph'.files
            /\ tasks' = tasks /\ Len(objs') = Len(objs)]_vars
C18_Witness ==
    /\ ph.exc
    /\ ph.pc = "raised"
    /\ ph.files = {File.plan, File.report}
    /\ Len(objs) = 2
    /\ \A i \in 1..Len(objs) : objs[i].status = COMPLETED

\* C19: at any time at most one of the tasks that phase 2 has submitted is
\* PENDING or IN_PROGRESS.
C19_OneTaskInFlight ==
    Cardinality({i \in 1..Len(objs) : objs[i].status \in {PENDING, IN_PROGRESS}}) <= 1

\* C20: phase 2 leaves its wait only when the task it waits for is COMPLETED
\* or FAILED, and submits nothing while it waits; once it waits for a
\* PENDING task with a dependency that is not registered, it waits in every
\* later state and the later tasks of the plan are never submitted.
C20_Stuck ==
    /\ ph.pc = "p2_wait"
    /\ objs[ph.cur].status = PENDING
    /\ \E i \in DOMAIN objs[ph.cur].dependencies :
          tasks[objs[ph.cur].dependencies[i]] = 0
C20_WaitUnbounded ==
    [][/\ (ph.pc = "p2_wait" /\ ph'.pc # "p2_wait") =>
            objs[ph.cur].status \in {COMPLETED, FAILED}
       /\ ph.pc = "p2_wait" => Len(objs') = Len(objs)
       /\ (ph.pc = "p2_wait" /\ ph'.pc = "p2_wait") => ph'.idx = ph.idx
       /\ C20_Stuck => C20_Stuck']_vars
C20_Witness ==
    /\ C20_Stuck
    /\ ph.idx < Len(ph.plan)
    /\ running
    /\ task_queue = <<>>
    /\ spc = "idle"
    /\ \A w \in workers : wpc[w] = "get"

\* C21: for a question whose retrieved documents are all rejected on every
\* pass, the run that run_workflow starts cycles through the graph and ends
\* at the recursion bound of 10 steps; no run executes more than 10 steps.
C21_RecursionBound ==
    \A i \in 1..Len(rag) :
       /\ rag[i].steps <= RecursionLimit
       /\ rag[i].question.grading = "all no" =>
             /\ rag[i].steps = RecursionLimit
             /\ rag[i].raised = "GraphRecursionError"

\* C22: every mention gets exactly one reply, in the thread it came from:
\* the generation of the graph's final state when the graph run succeeds,
\* the apology only when an exception occurred.
C22_OneReply ==
    \A i \in 1..Len(rag) :
       /\ Len(rag[i].posts) = 1
       /\ rag[i].posts[1].channel = rag[i].event.channel
       /\ rag[i].posts[1].thread_ts = ThreadTs(rag[i].event)
       /\ rag[i].question.graph.raised = "None" =>
             rag[i].posts[1].text = rag[i].question.graph.generation
       /\ rag[i].posts[1].text = "apology" => rag[i].exc # "None"

\* C23: when the latest model response of the assistant node has no tool
\* calls and no error is set, the graph goes to END; in particular it does
\* so after a round of tool execution.
C23_NoToolCallsEnds ==
    (wf.last = "assistant_agent" /\ wf.response = <<>> /\ wf.error = "None")
       => wf.pc = "END"

\* C24: a request whose analysis sets requires_human is routed to
\* human_intervention whatever its task type and ends with status
\* needs_human; one without the flag is routed to the node of its task
\* type when that is one of the five known types, to generic otherwise.
C24_HumanFirst ==
    \A i \in 1..Len(li.log) :
       LET e == li.log[i]
       IN  e.llm = "ok" =>
             IF e.analysis.requires_human
             THEN e.route = "human_intervention" /\ e.status = "needs_human"
             ELSE IF e.analysis.task_type \in {"implementation", "document_processing",
                                               "analysis", "project_management", "generic"}
             THEN e.route = e.analysis.task_type
             ELSE e.route = "generic"

\* The texts of the user's messages in a message list, and the texts of
\* the mentions handled so far for the conversation k, both in order.
C29_UserTexts(messages) ==
    LET users == SelectSeq(messages, LAMBDA m : m.role = "user")
    IN  [j \in 1..Len(users) |-> users[j].content]
C29_MentionTexts(k) ==
    LET mentions == SelectSeq(li.log, LAMBDA e : <<e.event.channel, ThreadTs(e.event)>> = k)
    IN  [j \in 1..Len(mentions) |-> mentions[j].text]
C29_Extends(old, new) ==
    Len(new) >= Len(old) /\ SubSeq(new, 1, Len(old)) = old

\* C29: for every channel:thread key the stored message, result and error
\* lists never shrink, and every mention appends the user's text to the
\* stored conversation of its key.
C29_ConversationsGrow ==
    /\ [](\A k \in DOMAIN li.conversations :
            C29_UserTexts(li.conversations[k].messages) = C29_MentionTexts(k))
    /\ [][\A k \in DOMAIN li.conversations :
            /\ C29_Extends(li.conversations[k].messages, li.conversations'[k].messages)
            /\ C29_Extends(li.conversations[k].results, li.conversations'[k].results)
            /\ C29_Extends(li.conversations[k].errors, li.conversations'[k].errors)]_vars

\* The mention handled by a step of the single-project bridge, and the
\* routes in the order the claims give them: the four built-in ones, then
\* the custom patterns as registered before the mention.
C25_Order ==
    <<"initialization", "task_request", "state_analysis", "task_status">>
C25_Found(k, text, registered) ==
    IF k <= Len(C25_Order)
    THEN \E i \in DOMAIN BaseRoutes :
            /\ BaseRoutes[i].name = C25_Order[k]
            /\ \E p \in BaseRoutes[i].patterns : Search(p, text)
    ELSE Search(<<{registered[k - Len(C25_Order)].pattern}>>, text)
C25_Handler(k, registered) ==
    IF k <= Len(C25_Order) THEN C25_Order[k] ELSE registered[k - Len(C25_Order)].handler
C25_OpsOf(handler) ==
    IF handler = "initialization" THEN {"initialize_project"}
    ELSE IF handler = "task_request" THEN {"formulate_assistant_request", "add_task"}
    ELSE IF handler = "state_analysis" THEN {"compare_project_state", "formulate_further_requests"}
    ELSE IF handler = "task_status" THEN {"get_task_status", "get_all_tasks"}
    ELSE {}

\* C25: the single-project bridge tests initialization, task request,
\* project-state analysis, task status and then the registered custom
\* patterns in that order; a mention invokes exactly one handler, the first
\* whose pattern matches, and only that handler's agent operations; when
\* no pattern matches it invokes none, performs no agent operation and
\* posts the help message exactly once, as its first message.
C25_FirstMatchingRoute ==
    [][sb'.log # sb.log =>
         LET e == sb'.log[Len(sb'.log)]
             registered == sb.message_handlers
             all == 1..(Len(C25_Order) + Len(registered))
             found == {k \in all : C25_Found(k, e.text, registered)}
         IN  IF found = {}
             THEN /\ e.handlers = <<>>
                  /\ e.ops = <<>>
                  /\ e.posts # <<>>
                  /\ e.posts[1].what = "help"
                  /\ Cardinality({j \in DOMAIN e.posts : e.posts[j].what = "help"}) = 1
             ELSE \E k \in found :
                     /\ \A j \in found : k <= j
                     /\ e.handlers = <<C25_Handler(k, registered)>>
                     /\ \A j \in DOMAIN e.ops : e.ops[j] \in C25_OpsOf(e.handlers[1])
                     /\ \A j \in DOMAIN e.posts : e.posts[j].what # "help"]_vars

\* Reached: a mention that matches both the state-analysis and the
\* task-status pattern was handled by state analysis, a mention that
\* matches two custom patterns by the first registered one, and a mention
\* that matches nothing got the help message.
C25_Witness ==
    /\ Len(sb.message_handlers) = 2
    /\ \E i \in DOMAIN sb.log :
          /\ sb.log[i].text = <<"deploy", "now">>
          /\ sb.log[i].handlers = <<sb.message_handlers[1].handler>>
          /\ sb.message_handlers[1].handler # sb.message_handlers[2].handler
    /\ \E i \in DOMAIN sb.log :
          \/ /\ sb.log[i].text = <<"check", "project", "status", "of", "task", "t1">>
             /\ sb.log[i].handlers = <<"state_analysis">>
          \/ /\ sb.log[i].text = <<"hello">>
             /\ sb.log[i].handlers = <<>>
             /\ sb.log[i].posts[1].what = "help"

\* The mentions of the regex bridges in which an operation of the matched
\* route (an agent operation that was called, or the custom handler) raised, and the message that reports it: posted to the channel and
\* thread of the mention and carrying the exception's text.
C28_Mentions == {sb.log[i] : i \in DOMAIN sb.log} \cup {ml[i] : i \in DOMAIN ml}
C28_Failed(e) ==
    /\ e.outcome = "raise"
    /\ e.handlers # <<>>
    /\ e.ops # <<>> \/ e.handlers[1] \in {"h1", "h2"}
C28_Reported(e) ==
    \E j \in DOMAIN e.posts :
       /\ e.posts[j].what = "error"
       /\ e.posts[j].detail = "boom"
       /\ e.posts[j].channel = e.event.channel
       /\ e.posts[j].thread_ts = ThreadTs(e.event)

C28_WitnessMulti ==
    \E i \in DOMAIN ml :
       C28_Failed(ml[i]) /\ ml[i].slack = "ok" /\ C28_Reported(ml[i])

\* The routes the multi-project bridge adds to the base set.
C26_Added == {"project_management", "implementation_phases"}
C26_MatchesAdded(text) ==
    \E i \in DOMAIN MultiRoutes :
       /\ MultiRoutes[i].name \in C26_Added
       /\ \E p \in MultiRoutes[i].patterns : Search(p, text)

\* C26: in the multi-project bridge the add-project route and the
\* implementation-phases route are tested before every route of the base
\* set: a mention that matches an added route is handled by an added
\* route, never by a base route.
C26_AddedRoutesFirst ==
    \A i \in DOMAIN ml :
       C26_MatchesAdded(ml[i].text) =>
          ml[i].handlers # <<>> /\ ml[i].handlers[1] \in C26_Added

\* The mentions whose route needs a repository, in the multi-project
\* bridge: initialization, implementation phases, state analysis and a task
\* request that says what to implement.
C27_NeedsProject(e) ==
    /\ e.handlers # <<>>
    /\ \/ e.handlers[1] \in {"initialization", "implementation_phases", "state_analysis"}
       \/ /\ e.handlers[1] = "task_request"
          /\ Argument({"feature", "task", "component"}, e.text) # ""

\* C27: in the multi-project bridge a route that needs a repository and
\* cannot resolve the named or default project posts the not-found message
\* and nothing else, and calls no agent or orchestrator operation.
C27_NotFoundMessage ==
    \A i \in DOMAIN ml :
       (/\ C27_NeedsProject(ml[i])
        /\ \/ sl.projects = "no attribute"
           \/ ~Resolves(sl.projects, Argument({"project", "name"}, ml[i].text)))
       => /\ ml[i].ops = <<>>
          /\ Len(ml[i].posts) >= 1
          /\ ml[i].posts[1].what = "not found"
          /\ \A j \in DOMAIN ml[i].posts : j > 1 => ml[i].posts[j].outer

\* C30: at any time each Task is held by at most one worker: no two
\* worker threads are between their queue get and their task_done with the
\* same Task.
C30_OneWorkerPerTask ==
    \A w1 \in Threads, w2 \in Threads :
       (w1 # w2 /\ wtask[w1] # 0) => wtask[w1] # wtask[w2]

\* The live Task objects: registered in self.tasks, waiting in the ready
\* queue, or held by a worker.
C31_Live ==
    ({tasks[k] : k \in DOMAIN tasks}
       \cup {task_queue[i] : i \in DOMAIN task_queue}
       \cup {wtask[w] : w \in Threads}) \ {NoneItem}

\* C31: no two distinct live Task objects share an identifier, so the Task
\* get_task_status(id) reads is the Task a worker processes for that id.
C31_UniqueLiveIds ==
    \A a \in C31_Live, b \in C31_Live :
       objs[a].task_id = objs[b].task_id => a = b

\* The dependencies of a registered task that are not COMPLETED, by
\* position, a dependency that names no registered task included.
C32_Uncompleted(k) ==
    {j \in DOMAIN objs[tasks[k]].dependencies :
       ~DepSatisfied(objs[tasks[k]].dependencies[j])}

\* C32: a phase-3 report's blocked_tasks has an entry for every PENDING
\* task with a dependency that is not COMPLETED, and its blocked_by is the
\* first such dependency in the task's dependency order, a dependency that
\* names no registered task included.
C32_BlockedReported ==
    [][ph' # ph =>
         \A k \in Keys :
            (tasks[k] # 0 /\ objs[tasks[k]].status = PENDING /\ C32_Uncompleted(k) # {})
            => \E i \in DOMAIN ph'.report.blocked_tasks :
                  /\ ph'.report.blocked_tasks[i].task_id = k
                  /\ ph'.report.blocked_tasks[i].blocked_by =
                        objs[tasks[k]].dependencies[
                           CHOOSE j \in C32_Uncompleted(k) :
                              \A l \in C32_Uncompleted(k) : j <= l]]_vars

\* C33: a task is never present in the ready queue more than once.
C33_QueuedOnce ==
    \A i \in DOMAIN task_queue, j \in DOMAIN task_queue :
       (task_queue[i] = task_queue[j] /\ task_queue[i] # NoneItem) => i = j

\* C34: with the agent started, every task on the ready queue is eventually
\* dequeued and reaches COMPLETED or FAILED, as long as the agent stays
\* started.
C34_Queued(t) == \E i \in DOMAIN task_queue : task_queue[i] = t
C34_Terminal(t) == t <= Len(objs) /\ objs[t].status \in {COMPLETED, FAILED}
C34_EventuallyProcessed ==
    \A t \in 1..MaxTasks :
       (running /\ C34_Queued(t)) ~> (C34_Terminal(t) \/ ~running)

\* The tasks with a dependency that has FAILED or that names no registered
\* task.
C35_DeadDependency(t) ==
    \E i \in DOMAIN objs[t].dependencies :
       LET d == objs[t].dependencies[i]
       IN  tasks[d] = 0 \/ objs[tasks[d]].status = FAILED

\* C35: while a task has a dependency that has FAILED or is not registered,
\* no step puts it on the ready queue and no step takes it out of PENDING.
C35_Copies(queue, t) == Cardinality({i \in DOMAIN queue : queue[i] = t})
C35_NeverQueued ==
    [][\A t \in 1..Len(objs) :
          (tasks[objs[t].task_id] = t /\ C35_DeadDependency(t)) =>
             /\ C35_Copies(task_queue', t) <= C35_Copies(task_queue, t)
             /\ objs[t].status = PENDING => objs'[t].status = PENDING]_vars


\* C36: once stop() has cleared the running flag, and until a start() sets
\* it again, no worker begins a task: no step sets a task IN_PROGRESS.
C36_NoBeginAfterStop ==
    [][~running =>
         \A t \in 1..Len(objs) :
            objs[t].status # IN_PROGRESS => objs'[t].status # IN_PROGRESS]_vars

\* C37: after start(); stop(); start() the agent, while it runs, has its
\* max_workers workers of the second start alive, and self.workers holds
\* exactly those.
C37_SecondRun == (SeqWorkers + 1)..(2 * SeqWorkers)
C37_RestartedPool ==
    (running /\ spawned = 2 * SeqWorkers) =>
       /\ workers = C37_SecondRun
       /\ \A w \in C37_SecondRun : wpc[w] # "exited"

\* C38: the pending tool invocations of one model response are executed
\* once: when the latest model response carried no tool calls, no step of
\* tool_execution executes invocations that the run has executed already.
C38_ExecutedOnce ==
    [][(Len(wf'.executed) > Len(wf.executed) /\ wf.response = <<>>) =>
          \A i \in 1..Len(wf.executed) :
             wf.executed[i] # wf.tools_output.invocations]_vars

\* C39: the text posted for a mention is that mention's own outcome: the
\* human-operator notice when the request is routed to human_intervention,
\* otherwise the formatted result of the request the mention carried.
C39_OwnOutcome ==
    \A i \in 1..Len(li.log) :
       LET e == li.log[i]
           answer == e.posts[Len(e.posts)].text
       IN  e.llm = "ok" =>
             IF RouteTask(e.analysis) = "human_intervention"
             THEN answer = "human notice"
             ELSE answer = e.text
====
